---- MODULE Spec2Model ----
(***************************************************************************)
(* EKG waveform synthesis engine (utils/waveformGenerator.ts, final        *)
(* variant) and its rhythm profile provider (utils/rhythmProfiles.ts).     *)
(*                                                                         *)
(* Numbers.  The program computes in IEEE doubles; the model computes in   *)
(* exact integers and fixed point:                                         *)
(*   - interval parameters (prInterval, qrsWidth, qtInterval) and phase    *)
(*     constants are in thousandths (0.16 -> 160);                         *)
(*   - amplitudes, voltages, angles and normalised positions are in units  *)
(*     of 1/U (U = 10000), products truncated toward zero;                 *)
(*   - sample times, amplitudeGain and the lead multiplier are in 1/U;     *)
(*   - a cycle position is the exact rational n / (U * pointsPerCycle),    *)
(*     kept as its numerator n, so every window comparison is exact.       *)
(* Math.sin, Math.exp and Math.pow are evaluated by series / root          *)
(* extraction in fixed point (absolute error of a few 1/U).                *)
(***************************************************************************)
EXTENDS Integers, Sequences, FiniteSets, TLC

\* Fixed-point unit of the model (one voltage or angle unit is 1/U = 0.0001).
U == 100 * 100

\* Truncating division (toward zero), so that negating an amplitude negates
\* the product exactly, as it does in floating point.
Trunc(n, d) == IF n >= 0 THEN n \div d ELSE -((-n) \div d)

\* a * b for two fixed-point numbers.
Mul(a, b) == Trunc(a * b, U)

Abs(x) == IF x < 0 THEN -x ELSE x

Max(a, b) == IF a >= b THEN a ELSE b

\* Math.round of the rational n / d (n >= 0, d > 0): halves round up.
Round(n, d) == (2 * n + d) \div (2 * d)

\* Variant: the quotient rounded to the nearest integer.
FloorToNearest(n, d) == (2 * n + d) \div (2 * d)

\* Math.floor of n / d.
Floor(n, d) == n \div d

----------------------------------------------------------------------------
\* Math.sin, Math.cos, Math.exp, Math.sqrt, Math.pow in fixed point.

\* Math.PI
PiFx == 31416
HalfPiFx == PiFx \div 2
TwoPiFx == 2 * PiFx

\* Taylor polynomial of sin on [0, pi/2]: t - t^3/3! + t^5/5! - t^7/7! + t^9/9!.
SinSeries(t) ==
  LET t2 == Mul(t, t)
      a3 == Mul(t2, t) \div 6
      a5 == Mul(a3, t2) \div 20
      a7 == Mul(a5, t2) \div 42
      a9 == Mul(a7, t2) \div 72
  IN  t - a3 + a5 - a7 + a9

\* Math.sin(x), x in radians (fixed point), reduced modulo 2*pi.
Sin(x) ==
  LET r == x % TwoPiFx
      h == IF r >= PiFx THEN r - PiFx ELSE r
      q == IF h > HalfPiFx THEN PiFx - h ELSE h
      s == SinSeries(q)
      c == IF s > U THEN U ELSE s
  IN  IF r >= PiFx THEN -c ELSE c

\* Math.cos(x).
Cos(x) == Sin(x + HalfPiFx)

\* exp(z) for 0 <= z <= 3 (fixed point), Taylor series summed to 14 terms.
RECURSIVE ExpSeries(_, _, _, _)
ExpSeries(z, k, term, acc) ==
  IF k > 14 \/ term = 0 THEN acc
  ELSE LET t == (term * z) \div (U * k)
       IN  ExpSeries(z, k + 1, t, acc + t)

\* Math.exp(-z) for 0 <= z <= 3.
ExpNeg(z) == (U * U) \div ExpSeries(z, 1, U, U)

\* Largest r in lo..hi with r * r <= n (bisection).
RECURSIVE ISqrt(_, _, _)
ISqrt(n, lo, hi) ==
  IF lo >= hi THEN lo
  ELSE LET mid == (lo + hi + 1) \div 2
       IN  IF mid * mid <= n THEN ISqrt(n, mid, hi) ELSE ISqrt(n, lo, mid - 1)

\* Math.sqrt(x) for 0 <= x <= 1.
Sqrt(x) == ISqrt(x * U, 0, U)

\* Math.pow(x, 0.8) for 0 <= x <= 1:
\* 0.8 = 1/2 + 1/4 + 1/32 + 1/64 + 1/512 + 1/1024 + ... (binary 0.110011001100...)
Pow08(x) ==
  LET s1 == Sqrt(x)
      s2 == Sqrt(s1)
      s3 == Sqrt(s2)
      s4 == Sqrt(s3)
      s5 == Sqrt(s4)
      s6 == Sqrt(s5)
      s7 == Sqrt(s6)
      s8 == Sqrt(s7)
      s9 == Sqrt(s8)
      s10 == Sqrt(s9)
  IN  IF x = 0 THEN 0
      ELSE Mul(Mul(Mul(s1, s2), Mul(s5, s6)), Mul(s9, s10))

\* Math.pow(x, 1.5) for 0 <= x <= 1.
Pow15(x) == Mul(x, Sqrt(x))

----------------------------------------------------------------------------
\* Rhythm profile provider (utils/rhythmProfiles.ts).  Amplitudes and noise
\* scales in 1/U, durations in thousandths of a second.

Leads == {"I", "II", "III", "aVR", "aVL", "aVF", "V1", "V2", "V3", "V4", "V5", "V6"}

\* A lead value outside the Lead type (reachable from untyped callers).
UnknownLead == "X"

Rhythms == {"normal", "afib", "vtach"}

\* A rhythm value outside the Rhythm type.
UnknownRhythm == "other"

\* The object literal of getNormalRhythmProfile.
NormalBaseProfile ==
  [name |-> "Normal Sinus Rhythm",
   baselineNoise |-> 200,
   pWave |-> [amplitude |-> 2000, duration |-> 80, present |-> TRUE],
   qrsComplex |-> [amplitude |-> 10000, duration |-> 80, morphology |-> "normal"],
   tWave |-> [amplitude |-> 3000, duration |-> 160, present |-> TRUE],
   rateVariability |-> 500]

\* Variant: the aVR case leaves the QRS upright.
NormalLeadSwitchUprightAVR(b, lead) ==
  CASE lead = "I"   -> [b EXCEPT !.qrsComplex.amplitude = 8000]
    [] lead = "II"  -> [b EXCEPT !.pWave.amplitude = 2500, !.qrsComplex.amplitude = 11000]
    [] lead = "III" -> [b EXCEPT !.qrsComplex.amplitude = 7000, !.tWave.amplitude = 2000]
    [] lead = "aVR" -> [b EXCEPT !.pWave.amplitude = -1500, !.qrsComplex.amplitude = 7000,
                                 !.tWave.amplitude = -2000]
    [] lead = "aVL" -> [b EXCEPT !.qrsComplex.amplitude = 6000]
    [] lead = "aVF" -> [b EXCEPT !.qrsComplex.amplitude = 8000]
    [] lead = "V1"  -> [b EXCEPT !.qrsComplex.amplitude = 7000, !.tWave.amplitude = -1000]
    [] lead = "V2"  -> [b EXCEPT !.qrsComplex.amplitude = 12000]
    [] lead = "V3"  -> [b EXCEPT !.qrsComplex.amplitude = 15000]
    [] lead = "V4"  -> [b EXCEPT !.qrsComplex.amplitude = 18000]
    [] lead = "V5"  -> [b EXCEPT !.qrsComplex.amplitude = 15000]
    [] lead = "V6"  -> [b EXCEPT !.qrsComplex.amplitude = 12000]
    [] OTHER -> b

\* The switch (lead) of getNormalRhythmProfile, applied to the object b.
NormalLeadSwitch(b, lead) ==
  CASE lead = "I"   -> [b EXCEPT !.qrsComplex.amplitude = 8000]
    [] lead = "II"  -> [b EXCEPT !.pWave.amplitude = 2500, !.qrsComplex.amplitude = 11000]
    [] lead = "III" -> [b EXCEPT !.qrsComplex.amplitude = 7000, !.tWave.amplitude = 2000]
    [] lead = "aVR" -> [b EXCEPT !.pWave.amplitude = -1500, !.qrsComplex.amplitude = -7000,
                                 !.tWave.amplitude = -2000]
    [] lead = "aVL" -> [b EXCEPT !.qrsComplex.amplitude = 6000]
    [] lead = "aVF" -> [b EXCEPT !.qrsComplex.amplitude = 8000]
    [] lead = "V1"  -> [b EXCEPT !.qrsComplex.amplitude = 7000, !.tWave.amplitude = -1000]
    [] lead = "V2"  -> [b EXCEPT !.qrsComplex.amplitude = 12000]
    [] lead = "V3"  -> [b EXCEPT !.qrsComplex.amplitude = 15000]
    [] lead = "V4"  -> [b EXCEPT !.qrsComplex.amplitude = 18000]
    [] lead = "V5"  -> [b EXCEPT !.qrsComplex.amplitude = 15000]
    [] lead = "V6"  -> [b EXCEPT !.qrsComplex.amplitude = 12000]
    [] OTHER -> b

\* Variant: the base profile returned without the switch on the lead.
getNormalRhythmProfileOfBase(lead, prInterval) == NormalBaseProfile

getNormalRhythmProfile(lead, prInterval) == NormalLeadSwitch(NormalBaseProfile, lead)

\* The object literal of getAFibRhythmProfile.
AFibBaseProfile ==
  [name |-> "Atrial Fibrillation",
   baselineNoise |-> 500,
   pWave |-> [amplitude |-> 0, duration |-> 0, present |-> FALSE],
   qrsComplex |-> [amplitude |-> 10000, duration |-> 80, morphology |-> "normal"],
   tWave |-> [amplitude |-> 3000, duration |-> 160, present |-> TRUE],
   rateVariability |-> 4000]

\* Variant: the lead II case copied from the normal profile, P wave included.
AFibLeadSwitchWithP(b, lead) ==
  CASE lead = "II" -> [b EXCEPT !.pWave.amplitude = 2500, !.qrsComplex.amplitude = 11000]
    [] lead = "V1" -> [b EXCEPT !.baselineNoise = 700]
    [] OTHER -> b

\* The switch (lead) of getAFibRhythmProfile, applied to the object b.
AFibLeadSwitch(b, lead) ==
  CASE lead = "II" -> [b EXCEPT !.qrsComplex.amplitude = 11000]
    [] lead = "V1" -> [b EXCEPT !.baselineNoise = 700]
    [] OTHER -> b

\* Variant: the base profile returned without the switch on the lead.
getAFibRhythmProfileOfBase(lead) == AFibBaseProfile

getAFibRhythmProfile(lead) == AFibLeadSwitch(AFibBaseProfile, lead)

\* The object literal of getVTachRhythmProfile.
VTachBaseProfile ==
  [name |-> "Ventricular Tachycardia",
   baselineNoise |-> 300,
   pWave |-> [amplitude |-> 0, duration |-> 0, present |-> FALSE],
   qrsComplex |-> [amplitude |-> 18000, duration |-> 160, morphology |-> "wide"],
   tWave |-> [amplitude |-> 5000, duration |-> 120, present |-> TRUE],
   rateVariability |-> 1000]

\* Variant: the V2 label dropped from the first case.
VTachLeadSwitchV1Only(b, lead) ==
  CASE lead = "V1" -> [b EXCEPT !.qrsComplex.amplitude = 20000]
    [] lead = "V6" -> [b EXCEPT !.qrsComplex.amplitude = 16000]
    [] OTHER -> b

\* The switch (lead) of getVTachRhythmProfile, applied to the object b.
VTachLeadSwitch(b, lead) ==
  CASE lead \in {"V1", "V2"} -> [b EXCEPT !.qrsComplex.amplitude = 20000]
    [] lead = "V6" -> [b EXCEPT !.qrsComplex.amplitude = 16000]
    [] OTHER -> b

getVTachRhythmProfile(lead) == VTachLeadSwitch(VTachBaseProfile, lead)

\* The switch (rhythm) of generateWaveform that selects the profile.
SelectProfile(rhythm, lead, prInterval) ==
  CASE rhythm = "normal" -> getNormalRhythmProfile(lead, prInterval)
    [] rhythm = "afib"   -> getAFibRhythmProfile(lead)
    [] rhythm = "vtach"  -> getVTachRhythmProfile(lead)
    [] OTHER             -> getNormalRhythmProfile(lead, prInterval)

----------------------------------------------------------------------------
\* Point generators.  A cycle position is r / ppc (r = i % pointsPerCycle);
\* positions and window bounds are numerators over U * ppc.

\* The phase ms/1000 as a numerator over U * ppc.
Ph(ms, ppc) == ms * (U \div 1000) * ppc

\* (position - start) / width in fixed point, for pos >= start.
Rel(pos, startMs, widthMs, ppc) == ((pos - Ph(startMs, ppc)) * 1000) \div (widthMs * ppc)

\* a / b for fixed-point a and b.
Div(a, b) == Trunc(a * U, b)

gaussian(x, mu, sigma, amplitude) ==
  Mul(amplitude, ExpNeg(Div(Mul(x - mu, x - mu), 2 * Mul(sigma, sigma))))

\* The four-phase QRS morphology shared by the normal and AFib generators;
\* value is the contribution accumulated before the QRS block.
QrsNormalShape(value, q, amp) ==
  IF q < 2000 THEN value - Mul(Mul(amp, 2000), Div(q, 2000))
  ELSE IF q < 4000 THEN value + Mul(amp, Pow08(Div(q - 2000, 2000)))
  ELSE IF q < 7000 THEN value + Mul(amp, U - Mul(Div(q - 4000, 3000), 12000))
  ELSE Mul(value + Mul(amp, U - Div(q - 7000, 3000)),
           Max(0, U - Div(q - 7000, 3000)))

\* Variant: the ST segment solved from the QT interval without a floor.
StSegmentDurationUnfloored(qrsWidth, qtInterval) == qtInterval - qrsWidth - 160

\* ST segment duration: Math.max(0.05, qtInterval - qrsWidth - tDuration).
StSegmentDuration(qrsWidth, qtInterval) == Max(50, qtInterval - qrsWidth - 160)

\* Variant: the PR interval measured from the onset of the P wave.
QrsStartFromP(prInterval) == 40 + prInterval

\* const qrsStart = prInterval
QrsStart(prInterval) == prInterval

\* position >= start && position < end, on numerators over U * ppc.
Within(pos, startMs, endMs, ppc) == pos >= Ph(startMs, ppc) /\ pos < Ph(endMs, ppc)

\* The P wave block: amplitude * sin(pi * pPosition) inside [pStart, pEnd),
\* pStart = 0.04, pDuration = 0.08.
PWaveBlock(pos, ppc, amplitude) ==
  IF Within(pos, 40, 40 + 80, ppc)
  THEN Mul(amplitude, Sin(Mul(PiFx, Rel(pos, 40, 80, ppc))))
  ELSE 0

\* The QRS block of the normal and AFib generators, applied to the value
\* accumulated before it.
QrsBlock(value, pos, ppc, qrsStart, qrsWidth, amp) ==
  IF Within(pos, qrsStart, qrsStart + qrsWidth, ppc)
  THEN QrsNormalShape(value, Rel(pos, qrsStart, qrsWidth, ppc), amp)
  ELSE value

\* Variant: a T wave that lasts 0.6 of the beat.
TWaveBlockLong(pos, ppc, tStart, amp, center, width, height) ==
  IF Within(pos, tStart, tStart + 600, ppc)
  THEN Mul(amp, gaussian(Rel(pos, tStart, 600, ppc), center, width, height))
  ELSE 0

\* The T wave block: what it adds to the value inside [tStart, tStart + 0.16),
\* amp * gaussian(tPosition, center, width, height).
TWaveBlock(pos, ppc, tStart, amp, center, width, height) ==
  IF Within(pos, tStart, tStart + 160, ppc)
  THEN Mul(amp, gaussian(Rel(pos, tStart, 160, ppc), center, width, height))
  ELSE 0

\* profile.stElevation is undefined on every profile, so the ST block of the
\* normal and AFib generators adds (undefined || 0) * 0.05 = 0.
generateNormalSinusPoint(r, ppc, profile, prInterval, qrsWidth, qtInterval) ==
  QrsBlock(PWaveBlock(r * U, ppc, profile.pWave.amplitude),
           r * U, ppc, QrsStart(prInterval), qrsWidth, profile.qrsComplex.amplitude)
  + TWaveBlock(r * U, ppc,
               QrsStart(prInterval) + qrsWidth + StSegmentDuration(qrsWidth, qtInterval),
               profile.tWave.amplitude, 4000, 3000, U)

\* 1.0 / (1 + cycleVariation * rrVariationFactor) of generateAFibPoint.
AFibBaseRR(cycle) ==
  Div(U, U + Mul(Mul(Mul(Sin(cycle * 3100), Cos(cycle * 7700)), Sin(cycle * 12300)), 2000))

\* The fibrillatory baseline: three sines of the cycle position.
AFibFibrillation(r, ppc) ==
  Mul(Sin((r * U * 120) \div ppc), 300)
  + Mul(Sin((r * U * 137) \div ppc), 200)
  + Mul(Sin((r * U * 146) \div ppc), 250)

\* (position * baseRR) % 1, as a numerator over U * ppc.
AFibAdjustedPosition(r, ppc, cycle) == (r * AFibBaseRR(cycle)) % (U * ppc)

\* Variant: the QRS placed at the default PR interval, qrsStart = 0.16.
AFibBlocksQrsAtPr(fib, adj, ppc, profile, qrsWidth, qtInterval) ==
  QrsBlock(fib, adj, ppc, 160, qrsWidth, profile.qrsComplex.amplitude)
  + TWaveBlock(adj, ppc, 160 + qrsWidth + StSegmentDuration(qrsWidth, qtInterval),
               profile.tWave.amplitude, 4000, 3000, 9000)

\* The QRS and T blocks of generateAFibPoint at the adjusted position adj,
\* on top of the fibrillatory value fib; qrsStart = 0.2.
AFibBlocks(fib, adj, ppc, profile, qrsWidth, qtInterval) ==
  QrsBlock(fib, adj, ppc, 200, qrsWidth, profile.qrsComplex.amplitude)
  + TWaveBlock(adj, ppc, 200 + qrsWidth + StSegmentDuration(qrsWidth, qtInterval),
               profile.tWave.amplitude, 4000, 3000, 9000)

generateAFibPoint(r, ppc, cycle, profile, qrsWidth, qtInterval) ==
  AFibBlocks(AFibFibrillation(r, ppc), AFibAdjustedPosition(r, ppc, cycle),
             ppc, profile, qrsWidth, qtInterval)

\* Variant: the configured width used as it is.
WideQrsWidthUnfloored(qrsWidth) == qrsWidth

\* Math.max(0.12, qrsWidth) of generateVTachPoint.
WideQrsWidth(qrsWidth) == Max(120, qrsWidth)

\* The three-phase wide QRS of generateVTachPoint at qrsPosition q.
VTachQrsShape(q, amp) ==
  IF q < 4000 THEN Mul(Mul(amp, 12000), Pow15(Div(q, 4000)))
  ELSE IF q < 7000 THEN Mul(amp, U - Div(q - 4000, 3000)) + Mul(Sin(q * 20), 1000)
  ELSE Mul(Mul(amp, 7000), U - Div(q - 7000, 3000))

\* Variant: the ST depression taken from the profile's T amplitude.
VTachBlocksProfileST(pos, ppc, wide, profile, qtInterval) ==
  (IF Within(pos, 100, 100 + wide, ppc)
   THEN VTachQrsShape(Rel(pos, 100, wide, ppc), profile.qrsComplex.amplitude)
   ELSE 0)
  + (IF Within(pos, 100 + wide, 100 + wide + Max(20, qtInterval - wide - 160), ppc)
     THEN -Mul(profile.tWave.amplitude, 3000) ELSE 0)
  - TWaveBlock(pos, ppc, 100 + wide + Max(20, qtInterval - wide - 160),
               Mul(profile.tWave.amplitude, 7000), 4500, 3500, U)

\* The blocks of generateVTachPoint for the widened QRS width wide:
\* qrsStart = 0.1, ST depression -0.1, inverted T wave.
VTachBlocks(pos, ppc, wide, profile, qtInterval) ==
  (IF Within(pos, 100, 100 + wide, ppc)
   THEN VTachQrsShape(Rel(pos, 100, wide, ppc), profile.qrsComplex.amplitude)
   ELSE 0)
  + (IF Within(pos, 100 + wide, 100 + wide + Max(20, qtInterval - wide - 160), ppc)
     THEN -1000 ELSE 0)
  - TWaveBlock(pos, ppc, 100 + wide + Max(20, qtInterval - wide - 160),
               Mul(profile.tWave.amplitude, 7000), 4500, 3500, U)

\* Variant: the T wave left upright.
generateVTachPointUprightT(r, ppc, profile, qrsWidth, qtInterval) ==
  VTachBlocks(r * U, ppc, WideQrsWidth(qrsWidth),
              [profile EXCEPT !.tWave.amplitude = -@], qtInterval)

generateVTachPoint(r, ppc, profile, qrsWidth, qtInterval) ==
  VTachBlocks(r * U, ppc, WideQrsWidth(qrsWidth), profile, qtInterval)

----------------------------------------------------------------------------
\* generateWaveform as a state machine: one frame per invocation, one step per
\* iteration of its sample loop.

VARIABLES
  frames,  \* slot -> the locals of the invocation running in that slot
  heap,    \* the rhythm profile objects allocated so far (address -> object)
  rng,     \* Math.random's stream (<<>> until the first draw fixes it)
  rngIdx,  \* how many draws have been taken, modulo the stream's period
  mode,    \* which family of call sites is being explored
  settings,  \* the state held by SimulatorProvider (the parameter store)
  invoked,   \* the arguments of the canvas effect's latest generateWaveform call
  lastOp,    \* the UI handler behind the latest re-render, and how much it changed
  requests,  \* the profile provider's calls so far: arguments and returned address
  raf,       \* the browser's pending animation frame callbacks (handle and closure)
  animationFrameIdRef,  \* animationFrameIdRef.current of the scrolling canvas (0 for null)
  handles,   \* how many handles requestAnimationFrame has returned
  loops,     \* how many times the scrolling canvas's effect has run
  cleaned,   \* the effect runs whose cleanup function has run
  mounted,   \* whether the scrolling canvas is mounted
  drawn,     \* what the latest execution of draw did
  canvasSize,  \* canvasWidth and canvasHeight of the static canvas
  table      \* the locals of the profile-table generator's invocation

\* The scrolling canvas and the browser's frame queue.
stage == <<raf, animationFrameIdRef, handles, loops, cleaned, mounted, drawn>>

vars == <<frames, heap, rng, rngIdx, mode, settings, invoked, lastOp, requests, stage,
          canvasSize, table>>

\* What the page leaves alone while an invocation of the engine runs.
page == <<settings, invoked, lastOp, requests, stage, canvasSize, table>>

Slots == {1, 2}

sampleRate == 250

\* Period of the modelled Math.random stream.
RngPeriod == 3

\* Values Math.random() may return, in 1/U: the two ends of [0, 1).
RandomDraws == {0, U - 1}

Streams == [1..RngPeriod -> RandomDraws]

Params(rhythm, heartRate, lead, prInterval, addNoise, qrsWidth, qtInterval, amplitudeGain) ==
  [rhythm |-> rhythm, heartRate |-> heartRate, lead |-> lead, prInterval |-> prInterval,
   addNoise |-> addNoise, qrsWidth |-> qrsWidth, qtInterval |-> qtInterval,
   amplitudeGain |-> amplitudeGain]

\* Heart rates explored by the timing sweep (the spec's sane range is 20..300).
HeartRates == {20, 22, 30, 35, 36, 37, 40, 60, 70, 100, 150, 180, 300}

TimingInputs ==
  {Params(rh, hr, "II", 160, FALSE, 80, 360, U) :
     rh \in Rhythms \cup {UnknownRhythm}, hr \in HeartRates}

MorphologyInputs ==
  {Params("normal", hr, ld, pr, FALSE, qw, 360, U) :
     hr \in {40, 60, 180}, ld \in {"II", "aVR", "aVL", "V4"},
     pr \in {120, 160, 200}, qw \in {60, 80, 120}}

VTachInputs ==
  {Params("vtach", hr, ld, 160, FALSE, qw, qt, U) :
     hr \in {100, 180}, ld \in {"II", "V1"}, qw \in {60, 80, 120}, qt \in {300, 500}}

LeadInputs ==
  {Params(rh, 70, ld, 160, FALSE, 80, 360, U) :
     rh \in Rhythms \cup {UnknownRhythm}, ld \in Leads \cup {UnknownLead}}

NoiseInputs ==
  {Params("afib", 150, "V1", 160, TRUE, 80, 360, 2 * U),
   Params("normal", 70, "aVR", 160, TRUE, 80, 360, U \div 2)}

\* The ends of the amplitude range for a lead of each normalization group.
GainInputs ==
  {Params("normal", 60, lead, 160, FALSE, 80, 360, gain) :
     lead \in {"II", "V5", "V1", "aVR"}, gain \in {U \div 2, 2 * U}}

\* The ends and the default of the QT range against the ends of the PR and
\* QRS ranges.
QtInputs ==
  {Params("normal", 60, "II", pr, FALSE, qw, qt, U) :
     pr \in {120, 200}, qw \in {60, 120}, qt \in {300, 360, 500}}

\* The ends of the PR range for the two rhythms without a P wave.
PrInputs ==
  {Params(rh, 100, "II", pr, FALSE, 80, 360, U) : rh \in {"afib", "vtach"}, pr \in {120, 200}}

\* Two successive invocations, every rhythm.
SeqInputs ==
  {Params(rh, 180, "II", 160, FALSE, 80, 360, U) : rh \in Rhythms \cup {UnknownRhythm}}

\* Two invocations in flight at once, from independent call sites.
PairInputs(c) ==
  IF c = 1
  THEN {Params("vtach", 180, "V1", 160, FALSE, 60, 300, U \div 2)}
  ELSE {Params("afib", 150, "V1", 120, TRUE, 60, 300, 2 * U),
        Params("normal", 100, "II", 200, FALSE, 120, 500, U)}

InputsOf(m, c) ==
  CASE m = "single" ->
         TimingInputs \cup MorphologyInputs \cup VTachInputs \cup LeadInputs \cup NoiseInputs
           \cup QtInputs \cup GainInputs \cup PrInputs
    [] m = "seq" -> SeqInputs
    [] m = "pair" -> PairInputs(c)

\* How many loop iterations one in-flight invocation may be ahead of the other.
MaxSkew == 2

\* Whether the invocation in slot c is inside its sample loop.
Looping(fr, c) == fr[c].pc = "loop" /\ fr[c].i < fr[c].totalPoints

\* Which slot a call site may use: one invocation; a second one after the
\* first has returned; or two in flight at once.
Callable(m, c, fr) ==
  CASE m = "single" -> c = 1
    [] m = "seq" -> c = 1 \/ fr[1].pc = "done"
    [] m = "pair" -> \A o \in Slots \ {c} : fr[o].i <= MaxSkew

\* The interleavings explored: any order of the two loops' iterations in which
\* neither loop runs more than MaxSkew iterations ahead of the other.
Schedulable(m, c, fr) ==
  m = "pair" => \A o \in Slots \ {c} : Looping(fr, o) => fr[c].i - fr[o].i < MaxSkew

\* const pointsPerCycle = Math.round(cycleLength * sampleRate), cycleLength = 60 / heartRate
PointsPerCycle(heartRate) == Round(60 * sampleRate, heartRate)

\* Variant: five cardiac cycles instead of max(5 s, 3 cycles).
TotalPointsFiveCycles(heartRate) == 5 * PointsPerCycle(heartRate)

\* const totalPoints = Math.round(Math.max(5, 3 * cycleLength) * sampleRate)
TotalPoints(heartRate) ==
  IF 3 * 60 > 5 * heartRate
  THEN Round(3 * 60 * sampleRate, heartRate)
  ELSE Round(5 * sampleRate, 1)

\* Variant: integer division, the time truncated to whole seconds.
TimeInWholeSeconds(i) == (i \div sampleRate) * U

\* const timeInSeconds = i / sampleRate (in 1/U seconds)
TimeInSeconds(i) == (i * U) \div sampleRate

\* Variant: only lead II keeps the unit multiplier.
LeadNormalizationOnlyII(lead) ==
  IF lead = "II" THEN U
  ELSE IF lead = "V1" \/ lead = "V2" THEN 12000 ELSE 9000

\* The lead normalisation of normalizedGain.
LeadNormalization(lead) ==
  IF lead = "II" \/ lead = "V5" THEN U
  ELSE IF lead = "V1" \/ lead = "V2" THEN 12000 ELSE 9000

NormalizedGain(amplitudeGain, lead) == Mul(amplitudeGain, LeadNormalization(lead))

\* Variant: a final else that dispatches to the normal generator.
RhythmPointElseNormal(p, profile, r, ppc, cycle) ==
  IF p.rhythm = "afib"
  THEN generateAFibPoint(r, ppc, cycle, profile, p.qrsWidth, p.qtInterval)
  ELSE IF p.rhythm = "vtach"
  THEN generateVTachPoint(r, ppc, profile, p.qrsWidth, p.qtInterval)
  ELSE generateNormalSinusPoint(r, ppc, profile, p.prInterval, p.qrsWidth, p.qtInterval)

\* The if / else-if chain that dispatches to a point generator.
RhythmPoint(p, profile, r, ppc, cycle) ==
  IF p.rhythm = "normal"
  THEN generateNormalSinusPoint(r, ppc, profile, p.prInterval, p.qrsWidth, p.qtInterval)
  ELSE IF p.rhythm = "afib"
  THEN generateAFibPoint(r, ppc, cycle, profile, p.qrsWidth, p.qtInterval)
  ELSE IF p.rhythm = "vtach"
  THEN generateVTachPoint(r, ppc, profile, p.qrsWidth, p.qtInterval)
  ELSE 0

\* const dynamicNoiseScale = 0.05 * (1 + (heartRate - 70) / 100)
DynamicNoiseScale(heartRate) == Mul(500, U + Trunc((heartRate - 70) * U, 100))

\* (Math.random() * 2 - 1) * noiseAmplitude * dynamicNoiseScale, for the draw d
NoiseTerm(d, noiseAmplitude, heartRate) ==
  Mul(Mul(2 * d - U, noiseAmplitude), DynamicNoiseScale(heartRate))

\* Variant: the flag ignored, noise always on.
AddNoiseAlways(p) == TRUE

\* The addNoise argument as the function reads it.
AddNoise(p) == p.addNoise

\* const noiseAmplitude = addNoise ? rhythmProfile.baselineNoise : 0
NoiseAmplitude(p, profile) == IF AddNoise(p) THEN profile.baselineNoise ELSE 0

\* Variant: the noise added to the rhythm's contribution before the gain.
SampleVoltageNoiseFirst(p, profile, noiseAmplitude, ppc, i, d) ==
  Mul(RhythmPoint(p, profile, i % ppc, ppc, Floor(i, ppc))
        + (IF AddNoise(p) THEN NoiseTerm(d, noiseAmplitude, p.heartRate) ELSE 0),
      NormalizedGain(p.amplitudeGain, p.lead))

\* The voltage of sample i: the body of the loop with the draw d of Math.random.
SampleVoltage(p, profile, noiseAmplitude, ppc, i, d) ==
  Mul(RhythmPoint(p, profile, i % ppc, ppc, Floor(i, ppc)),
      NormalizedGain(p.amplitudeGain, p.lead))
  + (IF AddNoise(p) THEN NoiseTerm(d, noiseAmplitude, p.heartRate) ELSE 0)

\* Variant: one module-level profile object reused by every call.
SingletonObject(h) == 1

\* The address of a newly created object.
NewObject(h) == Len(h) + 1

\* The heap after storing obj at address a.
Store(h, a, obj) ==
  [k \in 1..Max(Len(h), a) |-> IF k = a THEN obj ELSE h[k]]

IdleFrame ==
  [pc |-> "idle", params |-> Params("normal", 0, "II", 0, FALSE, 0, 0, 0),
   pointsPerCycle |-> 0, totalPoints |-> 0, rhythmProfile |-> 0, noiseAmplitude |-> 0,
   i |-> 0, waveform |-> <<>>]

\* const defaultContextValue (the setters left out), as useState receives it.
defaultContextValue ==
  [heartRate |-> 70, rhythm |-> "normal", prInterval |-> 160, qrsWidth |-> 80,
   qtInterval |-> 360, amplitudeGain |-> U, showLabels |-> FALSE, showNoise |-> FALSE,
   selectedLead |-> "II"]

\* The generateWaveform call of WaveformCanvas's effect, which runs on mount
\* and after every change of a setting.
EngineArguments(s) ==
  Params(s.rhythm, s.heartRate, s.selectedLead, s.prInterval, s.showNoise,
         s.qrsWidth, s.qtInterval, s.amplitudeGain)

\* points: 500 of useEKGSimulator's generateRhythmWaveform call, and the width
\* attribute of the scrolling canvas.
WaveformPoints == 500
ScrollingCanvasWidth == 500

\* scrollSpeed = Math.max(1, 10 / (beatInterval / 1000)) with
\* beatInterval = 60000 / heartRate, in sixths of a point per frame.
ScrollSpeed(heartRate) == Max(6, heartRate)

\* Variant: the index left as the sum.
DataIndexUnwrapped(startPos, i, length) == startPos + i

\* const dataIndex = (startPos + i) % waveformData.points.length
DataIndex(startPos, i, length) == (startPos + i) % length

\* const startPos = Math.floor(dataPosition) % waveformData.points.length,
\* dataPosition in sixths.
StartPos(dataPosition, length) == Floor(dataPosition, 6) % length

\* The indices at which one execution of draw reads waveformData.points:
\* startPos for moveTo, then one per pixel of the loop.
IndicesRead(dataPosition, length) ==
  IF length = 0 THEN {}
  ELSE {StartPos(dataPosition, length)}
       \cup {DataIndex(StartPos(dataPosition, length), i, length) :
               i \in 1..(IF ScrollingCanvasWidth < length THEN ScrollingCanvasWidth ELSE length) - 1}

\* dataPosition += scrollSpeed; if (dataPosition >= length) dataPosition = 0
\* (skipped with the rest of the frame when there is no data).
Advance(dataPosition, heartRate, length) ==
  IF length = 0 THEN dataPosition
  ELSE IF dataPosition + ScrollSpeed(heartRate) >= 6 * length THEN 0
  ELSE dataPosition + ScrollSpeed(heartRate)

\* What one execution of draw did: the effect run whose closure it is, the
\* dataPosition it started from, the indices it read outside the data, and
\* whether that effect run had been cleaned up before.
Drawing(loop, dataPosition, late) ==
  [loop |-> loop, dataPosition |-> dataPosition,
   outside |-> {k \in IndicesRead(dataPosition, WaveformPoints) : k < 0 \/ k >= WaveformPoints},
   afterCleanup |-> late]

\* The callback requestAnimationFrame(draw) leaves pending: its handle and
\* the closure's effect run, dataPosition and heart rate.
Callback(handle, loop, dataPosition, heartRate) ==
  [handle |-> handle, loop |-> loop, dataPosition |-> dataPosition, heartRate |-> heartRate]

\* The frame pending after the effect has run for the first time: draw() has
\* executed once from dataPosition 0.
FirstFrame(heartRate) == Callback(1, 1, Advance(0, heartRate, WaveformPoints), heartRate)

\* useState(1650) and useState(100) of the static canvas.
DefaultSize == [width |-> 1650, height |-> 100]

InitIn(m) ==
  /\ mode = m
  /\ frames = [c \in Slots |-> IdleFrame]
  /\ heap = <<>>
  /\ rng = <<>>
  /\ rngIdx = 0
  /\ settings = defaultContextValue
  /\ invoked = EngineArguments(defaultContextValue)
  /\ lastOp = [handler |-> "mount", changed |-> 0]
  /\ requests = <<>>
  /\ raf = {FirstFrame(defaultContextValue.heartRate)}
  /\ animationFrameIdRef = 1
  /\ handles = 1
  /\ loops = 1
  /\ cleaned = {}
  /\ mounted = TRUE
  /\ drawn = Drawing(1, 0, FALSE)
  /\ canvasSize = DefaultSize
  /\ table = [pc |-> "idle"]

Init == InitIn("single")

InitSeq == InitIn("seq")

InitPair == InitIn("pair")

\* Entry of generateWaveform up to the loop: timing, profile selection, noise amplitude.
Call(c) ==
  /\ Callable(mode, c, frames)
  /\ frames[c].pc = "idle"
  /\ \E p \in InputsOf(mode, c) :
       LET a == NewObject(heap)
           profile == SelectProfile(p.rhythm, p.lead, p.prInterval)
       IN  /\ heap' = Store(heap, a, profile)
           /\ frames' = [frames EXCEPT ![c] =
                [pc |-> "loop", params |-> p,
                 pointsPerCycle |-> PointsPerCycle(p.heartRate),
                 totalPoints |-> TotalPoints(p.heartRate),
                 rhythmProfile |-> a,
                 noiseAmplitude |-> NoiseAmplitude(p, profile),
                 i |-> 0, waveform |-> <<>>]]
  /\ UNCHANGED <<rng, rngIdx, mode, page>>

\* The frame after one loop iteration in which Math.random(), if called, returns d.
Iterate(f, profile, d) ==
  [f EXCEPT !.waveform = Append(f.waveform,
                                [x |-> TimeInSeconds(f.i),
                                 y |-> SampleVoltage(f.params, profile, f.noiseAmplitude,
                                                     f.pointsPerCycle, f.i, d)]),
            !.i = f.i + 1]

\* The streams Math.random can be following when an iteration runs: a draw
\* fixes the stream if none was taken before; an iteration without noise
\* does not touch the generator.
StreamsFrom(r, drawing) ==
  IF drawing /\ r = <<>> THEN Streams ELSE {r}

\* The value Math.random() returns to an iteration that draws (0 stands for
\* the unused draw of an iteration that does not).
Draw(s, idx, drawing) == IF drawing THEN s[idx + 1] ELSE 0

\* One iteration of the sample loop.
Step(c) ==
  LET f == frames[c] IN
  /\ f.pc = "loop"
  /\ f.i < f.totalPoints
  /\ Schedulable(mode, c, frames)
  /\ \E s \in StreamsFrom(rng, AddNoise(f.params)) :
       /\ frames' = [frames EXCEPT ![c] =
            Iterate(f, heap[f.rhythmProfile], Draw(s, rngIdx, AddNoise(f.params)))]
       /\ rng' = s
       /\ rngIdx' = IF AddNoise(f.params) THEN (rngIdx + 1) % RngPeriod ELSE rngIdx
  /\ UNCHANGED <<heap, mode, page>>

\* Loop exit: return waveform.
Return(c) ==
  LET f == frames[c] IN
  /\ f.pc = "loop"
  /\ f.i >= f.totalPoints
  /\ frames' = [frames EXCEPT ![c] = [f EXCEPT !.pc = "done"]]
  /\ UNCHANGED <<heap, rng, rngIdx, mode, page>>

Next == \E c \in Slots : Call(c) \/ Step(c) \/ Return(c)

Spec == Init /\ [][Next]_vars

SpecSeq == InitSeq /\ [][Next]_vars

SpecPair == InitPair /\ [][Next]_vars

----------------------------------------------------------------------------
\* The simulator page: the parameter store of SimulatorProvider and the
\* controls of SimulatorPage that write it.  Every handler ends with the
\* re-render in which WaveformCanvas's effect calls generateWaveform.

\* The state setters returned by useState.
setHeartRate(s, v) == [s EXCEPT !.heartRate = v]
setRhythm(s, v) == [s EXCEPT !.rhythm = v]
setPrInterval(s, v) == [s EXCEPT !.prInterval = v]
setQrsWidth(s, v) == [s EXCEPT !.qrsWidth = v]
setQtInterval(s, v) == [s EXCEPT !.qtInterval = v]
setAmplitudeGain(s, v) == [s EXCEPT !.amplitudeGain = v]
setShowLabels(s, v) == [s EXCEPT !.showLabels = v]
setShowNoise(s, v) == [s EXCEPT !.showNoise = v]
setSelectedLead(s, v) == [s EXCEPT !.selectedLead = v]

\* Variant: the reset of the six-setting store kept after the store grew.
resetSettingsOfOldStore(s) ==
  setSelectedLead(setShowNoise(setShowLabels(
    setPrInterval(setRhythm(setHeartRate(s,
      defaultContextValue.heartRate),
      defaultContextValue.rhythm),
      defaultContextValue.prInterval),
      defaultContextValue.showLabels),
      defaultContextValue.showNoise),
      defaultContextValue.selectedLead)

\* const resetSettings: the nine setters called with the defaults.
resetSettings(s) ==
  setSelectedLead(setShowNoise(setShowLabels(
    setAmplitudeGain(setQtInterval(setQrsWidth(
      setPrInterval(setRhythm(setHeartRate(s,
        defaultContextValue.heartRate),
        defaultContextValue.rhythm),
        defaultContextValue.prInterval),
        defaultContextValue.qrsWidth),
        defaultContextValue.qtInterval),
        defaultContextValue.amplitudeGain),
        defaultContextValue.showLabels),
        defaultContextValue.showNoise),
        defaultContextValue.selectedLead)

\* Variant: a range input that ignores its min attribute.
RangeInputFromZero(min, max, step) ==
  {k * step : k \in 0..(max \div step)}

\* The values <input type="range" min max step> can report to onChange:
\* min, min + step, ... up to max.
RangeInput(min, max, step) ==
  {min + k * step : k \in 0..((max - min) \div step)}

\* The slider positions explored: the two ends of the range (the default is
\* reached through the initial state and the reset button).
Ends(values) ==
  {v \in values : (\A w \in values : v <= w) \/ (\A w \in values : v >= w)}

\* The <SliderControl> elements of SimulatorPage (min, max, step).
HeartRateSlider == RangeInput(40, 180, 1)
PrIntervalSlider == RangeInput(120, 200, 10)
QrsWidthSlider == RangeInput(60, 120, 10)
QtIntervalSlider == RangeInput(300, 500, 10)
AmplitudeSlider == RangeInput(U \div 2, 2 * U, U \div 10)

\* RHYTHM_OPTIONS of RhythmToggle and LEAD_OPTIONS of LeadSelector.
RHYTHM_OPTIONS == {"normal", "afib", "vtach"}
LEAD_OPTIONS == {"I", "II", "III", "aVR", "aVL", "aVF", "V1", "V2", "V3", "V4", "V5", "V6"}

InitUI == InitIn("ui")

\* How many settings differ between the stores s and t.
Changed(s, t) == Cardinality({k \in DOMAIN s : s[k] # t[k]})

\* The explorations in which the handlers of the simulator page are used.
PageModes == {"ui", "size"}

\* A handler has replaced the settings by s.  useState ignores a value equal to
\* the current one; otherwise React re-renders and the canvas effect, whose
\* dependencies are the settings, calls the engine with the new settings.
Rerender(op, s) ==
  /\ mode \in PageModes
  /\ s # settings
  /\ settings' = s
  /\ invoked' = EngineArguments(s)
  /\ lastOp' = [handler |-> op, changed |-> Changed(settings, s)]
  /\ UNCHANGED <<frames, heap, rng, rngIdx, mode, requests, stage, canvasSize, table>>

ChangeHeartRate ==
  \E v \in Ends(HeartRateSlider) : Rerender("setHeartRate", setHeartRate(settings, v))

ChangePrInterval ==
  \E v \in Ends(PrIntervalSlider) : Rerender("setPrInterval", setPrInterval(settings, v))

ChangeQrsWidth ==
  \E v \in Ends(QrsWidthSlider) : Rerender("setQrsWidth", setQrsWidth(settings, v))

ChangeQtInterval ==
  \E v \in Ends(QtIntervalSlider) : Rerender("setQtInterval", setQtInterval(settings, v))

ChangeAmplitude ==
  \E v \in Ends(AmplitudeSlider) : Rerender("setAmplitudeGain", setAmplitudeGain(settings, v))

SelectRhythm ==
  \E v \in RHYTHM_OPTIONS : Rerender("setRhythm", setRhythm(settings, v))

SelectLead ==
  \E v \in LEAD_OPTIONS : Rerender("setSelectedLead", setSelectedLead(settings, v))

\* ToggleSwitch: onClick={() => onChange(!checked)}
ToggleLabels == Rerender("setShowLabels", setShowLabels(settings, ~settings.showLabels))

ToggleNoise == Rerender("setShowNoise", setShowNoise(settings, ~settings.showNoise))

\* The Reset button.
Reset == Rerender("resetSettings", resetSettings(settings))

NextUI ==
  \/ ChangeHeartRate \/ ChangePrInterval \/ ChangeQrsWidth \/ ChangeQtInterval
  \/ ChangeAmplitude \/ SelectRhythm \/ SelectLead \/ ToggleLabels \/ ToggleNoise
  \/ Reset

SpecUI == InitUI /\ [][NextUI]_vars

----------------------------------------------------------------------------
\* The scrolling canvas: its effect starts a requestAnimationFrame loop over
\* the data of useEKGSimulator and restarts it when a dependency changes.

\* How many handles and how many effect runs are explored.
MaxHandles == 45
MaxLoops == 3

InitCanvas == InitIn("canvas")

\* Variant: a cleanup function that cancels nothing.
CancelNothing(pending, ref) == pending

\* The cleanup function: if (animationFrameIdRef.current)
\* cancelAnimationFrame(animationFrameIdRef.current).
Cleanup(pending, ref) ==
  IF ref # 0 THEN {cb \in pending : cb.handle # ref} ELSE pending

\* The browser runs a pending callback: draw executes in its closure, moves
\* the closure's dataPosition on and requests the next frame.
Frame ==
  /\ mode = "canvas"
  /\ handles < MaxHandles
  /\ \E cb \in raf :
       /\ drawn' = Drawing(cb.loop, cb.dataPosition, cb.loop \in cleaned)
       /\ raf' = (raf \ {cb})
                   \cup {Callback(handles + 1, cb.loop,
                                  Advance(cb.dataPosition, cb.heartRate, WaveformPoints),
                                  cb.heartRate)}
  /\ animationFrameIdRef' = handles + 1
  /\ handles' = handles + 1
  /\ UNCHANGED <<frames, heap, rng, rngIdx, mode, settings, invoked, lastOp, requests,
                 loops, cleaned, mounted, canvasSize, table>>

\* A dependency of the effect has changed, the store now being s: React runs
\* the cleanup function of the previous run, then the effect, which calls
\* draw() once from dataPosition 0.
Restart(s) ==
  /\ mode = "canvas"
  /\ mounted
  /\ s # settings
  /\ loops < MaxLoops
  /\ handles < MaxHandles
  /\ settings' = s
  /\ cleaned' = cleaned \cup {loops}
  /\ loops' = loops + 1
  /\ drawn' = Drawing(loops + 1, 0, FALSE)
  /\ raf' = Cleanup(raf, animationFrameIdRef)
              \cup {Callback(handles + 1, loops + 1,
                             Advance(0, s.heartRate, WaveformPoints), s.heartRate)}
  /\ animationFrameIdRef' = handles + 1
  /\ handles' = handles + 1
  /\ UNCHANGED <<frames, heap, rng, rngIdx, mode, invoked, lastOp, requests, mounted,
                 canvasSize, table>>

\* beatInterval and waveformData change with the heart rate.
RateChanged == \E v \in Ends(HeartRateSlider) : Restart(setHeartRate(settings, v))

\* waveformData and waveformPattern change with the rhythm.
RhythmChanged == \E v \in RHYTHM_OPTIONS : Restart(setRhythm(settings, v))

\* The component unmounts: React runs the cleanup function of the last run.
Unmount ==
  /\ mode = "canvas"
  /\ mounted
  /\ mounted' = FALSE
  /\ cleaned' = cleaned \cup {loops}
  /\ raf' = Cleanup(raf, animationFrameIdRef)
  /\ UNCHANGED <<frames, heap, rng, rngIdx, mode, settings, invoked, lastOp, requests,
                 animationFrameIdRef, handles, loops, drawn, canvasSize, table>>

NextCanvas == Frame \/ RateChanged \/ RhythmChanged \/ Unmount

SpecCanvas == InitCanvas /\ [][NextCanvas]_vars

----------------------------------------------------------------------------
\* The size controls of the static canvas, next to the Reset button of the
\* simulator page.

\* The largest canvas explored.
MaxCanvasWidth == 2100
MaxCanvasHeight == 175

InitSize == InitIn("size")

\* setCanvasWidth(prev => prev + 150)
handleIncreaseWidth(size) == [size EXCEPT !.width = @ + 150]

\* Variant: the width decreased without a minimum.
handleDecreaseWidthUnclamped(size) == [size EXCEPT !.width = @ - 150]

\* setCanvasWidth(prev => Math.max(600, prev - 150))
handleDecreaseWidth(size) == [size EXCEPT !.width = Max(600, @ - 150)]

\* setCanvasHeight(prev => prev + 25)
handleIncreaseHeight(size) == [size EXCEPT !.height = @ + 25]

\* setCanvasHeight(prev => Math.max(50, prev - 25))
handleDecreaseHeight(size) == [size EXCEPT !.height = Max(50, @ - 25)]

\* The Reset Size button: setCanvasWidth(1650); setCanvasHeight(100).
resetSize(size) == [width |-> 1650, height |-> 100]

\* A click on a size control: the handler op has replaced the size by size.
Resize(op, size) ==
  /\ mode = "size"
  /\ size.width <= MaxCanvasWidth
  /\ size.height <= MaxCanvasHeight
  /\ canvasSize' = size
  /\ lastOp' = [handler |-> op, changed |-> 0]
  /\ UNCHANGED <<frames, heap, rng, rngIdx, mode, settings, invoked, requests, stage, table>>

IncreaseWidth == Resize("handleIncreaseWidth", handleIncreaseWidth(canvasSize))

DecreaseWidth == Resize("handleDecreaseWidth", handleDecreaseWidth(canvasSize))

IncreaseHeight == Resize("handleIncreaseHeight", handleIncreaseHeight(canvasSize))

DecreaseHeight == Resize("handleDecreaseHeight", handleDecreaseHeight(canvasSize))

ResetSize == Resize("resetSize", resetSize(canvasSize))

NextSize ==
  \/ IncreaseWidth \/ DecreaseWidth \/ IncreaseHeight \/ DecreaseHeight \/ ResetSize
  \/ ChangeHeartRate \/ Reset

SpecSize == InitSize /\ [][NextSize]_vars

----------------------------------------------------------------------------
\* The profile provider called on its own: any sequence of calls of its three
\* functions, each returning the address of the object it built.

\* How many provider calls a behaviour makes.
MaxCalls == 3

\* Variant: one base object per rhythm kept between calls; a call modifies
\* what the previous call of the same function left and returns a copy.
BaseKeptBetweenCalls(h, literal) ==
  IF \E k \in 1..Len(h) : h[k].name = literal.name
  THEN h[CHOOSE k \in 1..Len(h) :
           /\ h[k].name = literal.name
           /\ \A j \in (k + 1)..Len(h) : h[j].name # literal.name]
  ELSE literal

\* const baseProfile = { ... }: the object literal evaluated by the call, whatever
\* objects h earlier calls have built.
FreshBase(h, literal) == literal

\* A call of the provider function f with the objects h built so far: the
\* heap with the returned object added.
Provide(h, f, lead) ==
  Store(h, NewObject(h),
        CASE f = "normal" -> NormalLeadSwitch(FreshBase(h, NormalBaseProfile), lead)
          [] f = "afib"   -> AFibLeadSwitch(FreshBase(h, AFibBaseProfile), lead)
          [] f = "vtach"  -> VTachLeadSwitch(FreshBase(h, VTachBaseProfile), lead))

InitProvider == InitIn("provider")

\* One call f(lead, prInterval) of a provider function, recorded with its result.
Get(f, lead, prInterval) ==
  /\ mode = "provider"
  /\ Len(requests) < MaxCalls
  /\ heap' = Provide(heap, f, lead)
  /\ requests' = Append(requests, [rhythm |-> f, lead |-> lead, prInterval |-> prInterval,
                                   address |-> NewObject(heap)])
  /\ UNCHANGED <<frames, rng, rngIdx, mode, settings, invoked, lastOp, stage, canvasSize,
                 table>>

\* The leads the provider is asked for: the leads the atrial-fibrillation and
\* ventricular-tachycardia switches have a case for, three more of the Lead
\* type, and one value outside it.
ProviderLeads == {"I", "II", "aVR", "V1", "V2", "V6", UnknownLead}

GetNormal == \E lead \in ProviderLeads, pr \in {120, 200} : Get("normal", lead, pr)

GetAFib == \E lead \in ProviderLeads : Get("afib", lead, 160)

GetVTach == \E lead \in ProviderLeads : Get("vtach", lead, 160)

NextProvider == GetNormal \/ GetAFib \/ GetVTach

SpecProvider == InitProvider /\ [][NextProvider]_vars

----------------------------------------------------------------------------
\* The profile-table generator: generateWaveform of services/waveformGenerator.ts
\* over the point tables of services/rhythmProfiles.ts.  A profile time is in
\* hundredths of the beat, a voltage, the amplitude and the noise are in 1/U, and
\* the normalized time of point i of n is the fraction i / n.

RhythmPointOf(time, voltage) == [time |-> time, voltage |-> voltage]

NSR_PROFILE ==
  [name |-> "NSR", beatDuration |-> 857,
   points |-> << RhythmPointOf(0, 0), RhythmPointOf(5, 1000), RhythmPointOf(10, 2000),
                 RhythmPointOf(15, 1000), RhythmPointOf(20, 0), RhythmPointOf(25, -1000),
                 RhythmPointOf(30, 10000), RhythmPointOf(35, -2000), RhythmPointOf(40, 0),
                 RhythmPointOf(50, 1500), RhythmPointOf(60, 3000), RhythmPointOf(70, 1500),
                 RhythmPointOf(80, 0), RhythmPointOf(100, 0) >>]

AFIB_PROFILE ==
  [name |-> "AFib", beatDuration |-> 600,
   points |-> << RhythmPointOf(0, 0), RhythmPointOf(5, 500), RhythmPointOf(10, -500),
                 RhythmPointOf(15, 700), RhythmPointOf(20, -300), RhythmPointOf(25, -1000),
                 RhythmPointOf(30, 8000), RhythmPointOf(35, -1500), RhythmPointOf(40, 0),
                 RhythmPointOf(50, 2000), RhythmPointOf(55, 2500), RhythmPointOf(60, 1000),
                 RhythmPointOf(70, 500), RhythmPointOf(80, -800), RhythmPointOf(90, 400),
                 RhythmPointOf(100, 0) >>]

VTACH_PROFILE ==
  [name |-> "VTach", beatDuration |-> 375,
   points |-> << RhythmPointOf(0, 0), RhythmPointOf(5, 2000), RhythmPointOf(15, 10000),
                 RhythmPointOf(25, -5000), RhythmPointOf(35, 2000), RhythmPointOf(45, 4000),
                 RhythmPointOf(55, 1000), RhythmPointOf(70, 0), RhythmPointOf(100, 0) >>]

\* RHYTHM_PROFILES[rhythmType] || RHYTHM_PROFILES.NSR
RHYTHM_PROFILES(rhythmType) ==
  CASE rhythmType = "AFib"  -> AFIB_PROFILE
    [] rhythmType = "VTach" -> VTACH_PROFILE
    [] OTHER                -> NSR_PROFILE

\* requestedPoints || Math.ceil(totalDuration / 5), with totalDuration =
\* 60000 / bpm * timeScale, timeScale = 1, and 0 for an absent point count.
NumPoints(bpm, requestedPoints) ==
  IF requestedPoints # 0 THEN requestedPoints ELSE (12000 + bpm - 1) \div bpm

\* Variant: the lower point has to lie strictly before the time.
BracketsStrictly(points, j, i, n) ==
  /\ points[j].time * n < 100 * i
  /\ points[j + 1].time * n > 100 * i

\* profile.points[j].time <= time && profile.points[j + 1].time > time, for the
\* time i / n.
Brackets(points, j, i, n) ==
  /\ points[j].time * n <= 100 * i
  /\ points[j + 1].time * n > 100 * i

\* The index of lowerPoint after the search and the fallback: the first j the
\* search accepts, or the last index when it accepts none.
LowerIndex(points, i, n) ==
  IF \E j \in 1..(Len(points) - 1) : Brackets(points, j, i, n)
  THEN CHOOSE j \in 1..(Len(points) - 1) :
         /\ Brackets(points, j, i, n)
         /\ \A k \in 1..(j - 1) : ~Brackets(points, k, i, n)
  ELSE Len(points)

\* (time - lowerPoint.time) / (upperPoint.time - lowerPoint.time) in 1/U, the
\* denominator being negative after the fallback.
TimeFraction(lowerPoint, upperPoint, i, n) ==
  IF upperPoint.time < lowerPoint.time
  THEN Trunc((lowerPoint.time * n - 100 * i) * U, (lowerPoint.time - upperPoint.time) * n)
  ELSE Trunc((100 * i - lowerPoint.time * n) * U, (upperPoint.time - lowerPoint.time) * n)

\* lowerPoint.voltage + timeFraction * (upperPoint.voltage - lowerPoint.voltage)
Interpolated(lowerPoint, upperPoint, i, n) ==
  lowerPoint.voltage
    + Mul(TimeFraction(lowerPoint, upperPoint, i, n), upperPoint.voltage - lowerPoint.voltage)

\* if (noise > 0) value += (Math.random() * 2 - 1) * noise * 0.1
WithTableNoise(value, noise, draw) ==
  IF noise > 0 THEN value + Mul(Mul(2 * draw - U, noise), U \div 10) ELSE value

\* The value the loop body stores for point i of n; upperPoint is the point
\* after lowerPoint, or the first point after the fallback.
PointValue(points, i, n, amplitude, noise, draw) ==
  WithTableNoise(
    Mul(Interpolated(points[LowerIndex(points, i, n)],
                     points[IF LowerIndex(points, i, n) = Len(points)
                            THEN 1 ELSE LowerIndex(points, i, n) + 1], i, n),
        amplitude),
    noise, draw)

\* The options the generator is called with: every rhythm type at three heart
\* rates, with the point count absent (0), small, and the 500 the simulator hook
\* passes, at two amplitudes and without noise; and short noisy calls.
TableOptions ==
  {[rhythmType |-> r, bpm |-> b, noise |-> 0, amplitude |-> a, points |-> p] :
     r \in {"NSR", "AFib", "VTach"}, b \in {40, 70, 180}, a \in {U, U \div 2},
     p \in {0, 20, WaveformPoints}}
  \cup
  {[rhythmType |-> r, bpm |-> 70, noise |-> 500, amplitude |-> U, points |-> 6] :
     r \in {"NSR", "VTach"}}

InitTable == InitIn("table")

\* generateRhythmWaveform(rhythmType, options) up to the loop of generateWaveform.
Generate(options) ==
  /\ mode = "table"
  /\ table.pc = "idle"
  /\ table' = [pc |-> "loop", options |-> options,
               profile |-> RHYTHM_PROFILES(options.rhythmType),
               numPoints |-> NumPoints(options.bpm, options.points),
               i |-> 0, lower |-> << >>, waveformPoints |-> << >>]
  /\ UNCHANGED <<frames, heap, rng, rngIdx, mode, settings, invoked, lastOp, requests, stage,
                 canvasSize>>

GenerateRhythmWaveform == \E options \in TableOptions : Generate(options)

\* One iteration of the loop: point i is stored, and with it the index of the
\* lower point it was interpolated from.  Math.random() is called only when
\* noise > 0.
TablePoint(draw) ==
  /\ mode = "table"
  /\ table.pc = "loop"
  /\ table.i < table.numPoints
  /\ table.options.noise = 0 => draw = 0
  /\ table' = [table EXCEPT
       !.i = @ + 1,
       !.lower = Append(@, LowerIndex(table.profile.points, table.i, table.numPoints)),
       !.waveformPoints =
          Append(@, PointValue(table.profile.points, table.i, table.numPoints,
                               table.options.amplitude, table.options.noise, draw))]
  /\ UNCHANGED <<frames, heap, rng, rngIdx, mode, settings, invoked, lastOp, requests, stage,
                 canvasSize>>

FillPoint == \E draw \in RandomDraws : TablePoint(draw)

\* return { points: waveformPoints, timeStep, totalDuration }
TableReturn ==
  /\ mode = "table"
  /\ table.pc = "loop"
  /\ table.i = table.numPoints
  /\ table' = [table EXCEPT !.pc = "done"]
  /\ UNCHANGED <<frames, heap, rng, rngIdx, mode, settings, invoked, lastOp, requests, stage,
                 canvasSize>>

NextTable == GenerateRhythmWaveform \/ FillPoint \/ TableReturn

SpecTable == InitTable /\ [][NextTable]_vars

----------------------------------------------------------------------------
\* Properties of the returned series.

Returned(c) == frames[c].pc = "done"

Offered(c) == frames[c].pc # "idle"

\* round(250 * max(5, 3 * 60 / heartRate)), halves rounded up.
ExpectedSampleCount(heartRate) ==
  IF 3 * 60 >= 5 * heartRate
  THEN (2 * (250 * 3 * 60) + heartRate) \div (2 * heartRate)
  ELSE 250 * 5

\* C1: for every heart rate and every rhythm the returned series has exactly
\* round(250 * max(5, 3 * 60 / heartRate)) samples (1250 at heartRate 60).
C1_SampleCount ==
  \A c \in Slots :
    Returned(c) =>
      /\ Len(frames[c].waveform) = ExpectedSampleCount(frames[c].params.heartRate)
      /\ frames[c].params.heartRate = 60 => Len(frames[c].waveform) = 1250

\* A slow heart rate (three cycles exceed five seconds) has returned its series.
C1_Witness ==
  /\ Returned(1)
  /\ frames[1].params.heartRate = 22
  /\ frames[1].params.rhythm = "afib"
  /\ Len(frames[1].waveform) = 2045

\* C2: the returned times start at 0 and strictly increase, sample i at i / 250 s.
C2_Times ==
  \A c \in Slots :
    Returned(c) =>
      LET w == frames[c].waveform IN
      /\ Len(w) > 0 => w[1].x = 0
      /\ \A k \in 1..Len(w) : w[k].x * 250 = (k - 1) * U
      /\ \A k \in 1..(Len(w) - 1) : w[k].x < w[k + 1].x

\* A series spanning fifteen beat boundaries has been returned.
C2_Witness ==
  /\ Returned(1)
  /\ frames[1].params.heartRate = 180
  /\ frames[1].pointsPerCycle = 83
  /\ Len(frames[1].waveform) = 1250
  /\ frames[1].waveform[1250].x = 49960

\* C8: over 20..300 BPM the series has at least 1250 samples and at least
\* 3 * pointsPerCycle samples, pointsPerCycle = round(250 * 60 / heartRate).
C8_Coverage ==
  \A c \in Slots :
    (Returned(c) /\ frames[c].params.heartRate \in 20..300) =>
      LET ppc == (2 * (250 * 60) + frames[c].params.heartRate)
                   \div (2 * frames[c].params.heartRate)
      IN  /\ Len(frames[c].waveform) >= 1250
          /\ Len(frames[c].waveform) >= 3 * ppc

\* The series generateWaveform(p) returns when it runs alone with noise off,
\* computed from a profile built for p alone.
SoloSample(p, i) ==
  LET profile == SelectProfile(p.rhythm, p.lead, p.prInterval) IN
  [x |-> TimeInSeconds(i),
   y |-> SampleVoltage(p, profile, 0, PointsPerCycle(p.heartRate), i, 0)]

\* C3: with addNoise = false two calls with identical arguments return
\* identical series, for every rhythm (atrial fibrillation included): the
\* second call reproduces the first call's series sample by sample.
C3_Deterministic ==
  (/\ Returned(1)
   /\ Offered(2)
   /\ frames[1].params = frames[2].params
   /\ ~frames[2].params.addNoise) =>
     LET w1 == frames[1].waveform
         w2 == frames[2].waveform
         n == Len(w2)
     IN  /\ n <= Len(w1)
         /\ n > 0 => w2[n] = w1[n]
         /\ Returned(2) => w2 = w1

\* Two atrial-fibrillation calls with the same arguments have both returned.
C3_Witness ==
  /\ Returned(1)
  /\ Returned(2)
  /\ frames[1].params = frames[2].params
  /\ frames[1].params.rhythm = "afib"
  /\ ~frames[1].params.addNoise
  /\ Len(frames[2].waveform) = 1250
  /\ \E k \in 1..1250 : frames[2].waveform[k].y > U

\* The largest voltage among the samples of beat 0 (indices 0 .. ppc - 1).
BeatMax(w, ppc) ==
  LET ys == {w[k].y : k \in 1..ppc} IN CHOOSE m \in ys : \A v \in ys : m >= v

\* The sample indices of beat 0 at which the voltage is largest.
PeakIndices(w, ppc) == {k - 1 : k \in {j \in 1..ppc : w[j].y = BeatMax(w, ppc)}}

\* Sample i of a beat of ppc samples lies less than one sample step from the
\* phase (prInterval + fifths/5 * qrsWidth).
NearQrsPhase(i, ppc, prInterval, qrsWidth, fifths) ==
  Abs(5000 * i - (5 * prInterval + fifths * qrsWidth) * ppc) < 5000

NormalNoiseFree(c) ==
  /\ Returned(c)
  /\ frames[c].params.rhythm = "normal"
  /\ ~frames[c].params.addNoise

\* C4 as stated: in normal rhythm with noise off the maximum-voltage sample of
\* a beat lies at phase prInterval + 0.2 * qrsWidth (to the nearest sample),
\* at every heart rate.
C4_PeakAtOneFifth ==
  \A c \in Slots :
    NormalNoiseFree(c) =>
      \A i \in PeakIndices(frames[c].waveform, frames[c].pointsPerCycle) :
        NearQrsPhase(i, frames[c].pointsPerCycle, frames[c].params.prInterval,
                     frames[c].params.qrsWidth, 1)

\* C4 amended: for every lead whose Normal QRS amplitude is positive (every
\* lead but aVR) and every heart rate of the UI range 40..180, each
\* maximum-voltage sample of a beat lies less than one sample step from phase
\* prInterval + 0.4 * qrsWidth (the end of the R-wave rise) or from phase
\* prInterval + 0.7 * qrsWidth (where the return-to-baseline branch restarts
\* at the full amplitude); for heartRate 60, prInterval 0.16, qrsWidth 0.08,
\* lead II, gain 1.0 the peak is 1.1, at 0.192 s and again at 0.216 s.
C4_PeakAtTwoFifths ==
  \A c \in Slots :
    (/\ NormalNoiseFree(c)
     /\ heap[frames[c].rhythmProfile].qrsComplex.amplitude > 0
     /\ frames[c].params.heartRate \in 40..180) =>
      LET f == frames[c]
          peaks == PeakIndices(f.waveform, f.pointsPerCycle)
      IN  /\ \A i \in peaks :
               \/ NearQrsPhase(i, f.pointsPerCycle, f.params.prInterval,
                               f.params.qrsWidth, 2)
               \/ Abs(10000 * i - (10 * f.params.prInterval + 7 * f.params.qrsWidth)
                                    * f.pointsPerCycle) < 10000
          /\ f.params = Params("normal", 60, "II", 160, FALSE, 80, 360, U) =>
               /\ peaks = {48, 54}
               /\ f.waveform[49] = [x |-> 1920, y |-> 11000]
               /\ f.waveform[55] = [x |-> 2160, y |-> 11000]

\* The reference call (heartRate 60, lead II) has returned with its peak at
\* sample 48, four samples after phase prInterval + 0.2 * qrsWidth.
C4_Witness ==
  /\ Returned(1)
  /\ frames[1].params = Params("normal", 60, "II", 160, FALSE, 80, 360, U)
  /\ 48 \in PeakIndices(frames[1].waveform, 250)
  /\ ~NearQrsPhase(48, 250, 160, 80, 1)

\* Whether sample i of a beat of ppc samples has its phase in [fromMs, toMs) / 1000.
InWindow(i, ppc, fromMs, toMs) ==
  LET r == i % ppc IN r * 1000 >= fromMs * ppc /\ r * 1000 < toMs * ppc

VTachNoiseFree(c) ==
  /\ Returned(c)
  /\ frames[c].params.rhythm = "vtach"
  /\ ~frames[c].params.addNoise

\* C5: in ventricular tachycardia the QRS window used is max(0.12, qrsWidth)
\* wide, also for qrsWidth below 0.12, and the ST and T windows follow the
\* widened QRS: every sample in [0.1, 0.1 + max(0.12, qrsWidth)) carries the
\* (non-negative) QRS deflection, every sample of the ST segment after it the
\* fixed depression, every sample of the T window after that the inverted T.
C5_VTachWideQrs ==
  \A c \in Slots :
    VTachNoiseFree(c) =>
      LET f == frames[c]
          p == f.params
          wide == IF p.qrsWidth < 120 THEN 120 ELSE p.qrsWidth
          qrsEnd == 100 + wide
          st == IF p.qtInterval - wide - 160 < 20 THEN 20 ELSE p.qtInterval - wide - 160
          tStart == qrsEnd + st
          gain == NormalizedGain(p.amplitudeGain, p.lead)
      IN  \A k \in 1..Len(f.waveform) :
               /\ InWindow(k - 1, f.pointsPerCycle, 100, qrsEnd) => f.waveform[k].y >= 0
               /\ InWindow(k - 1, f.pointsPerCycle, qrsEnd, tStart) =>
                    f.waveform[k].y = Mul(-1000, gain)
               /\ InWindow(k - 1, f.pointsPerCycle, tStart, tStart + 160) =>
                    f.waveform[k].y < 0

\* A call with qrsWidth 0.06 has returned a series whose QRS deflection is still
\* present between phase 0.16 and 0.22, past the configured width.
C5_Witness ==
  /\ VTachNoiseFree(1)
  /\ frames[1].params.qrsWidth = 60
  /\ \E k \in 1..frames[1].pointsPerCycle :
       /\ InWindow(k - 1, frames[1].pointsPerCycle, 160, 220)
       /\ frames[1].waveform[k].y > 0

\* The samples of beat 0 that fall in the QRS window [prInterval, prInterval + qrsWidth).
QrsSamples(f) ==
  {k \in 1..f.pointsPerCycle :
     InWindow(k - 1, f.pointsPerCycle, f.params.prInterval,
              f.params.prInterval + f.params.qrsWidth)}

\* The voltages of largest magnitude within the QRS window of beat 0.
QrsExtremes(f) ==
  LET ks == QrsSamples(f) IN
  {f.waveform[k].y : k \in {j \in ks : \A m \in ks : Abs(f.waveform[j].y) >= Abs(f.waveform[m].y)}}

\* C6: under normal rhythm with noise off the extreme QRS deflection is
\* positive for lead II and negative for lead aVR, other parameters equal.
C6_LeadSign ==
  \A c \in Slots :
    NormalNoiseFree(c) =>
      /\ frames[c].params.lead = "II" =>
           QrsSamples(frames[c]) # {} /\ \A y \in QrsExtremes(frames[c]) : y > 0
      /\ frames[c].params.lead = "aVR" =>
           QrsSamples(frames[c]) # {} /\ \A y \in QrsExtremes(frames[c]) : y < 0

\* An aVR series has been returned whose extreme QRS deflection is -0.7 * 0.9.
C6_Witness ==
  /\ NormalNoiseFree(1)
  /\ frames[1].params = Params("normal", 60, "aVR", 160, FALSE, 80, 360, U)
  /\ QrsExtremes(frames[1]) = {-6300}

\* The profile object the invocation in slot c reads.
ProfileOf(c) == heap[frames[c].rhythmProfile]

\* C7: for each of the 12 leads, and for a lead value outside the table, the
\* atrial-fibrillation profile has pWave.present = false and pWave.amplitude = 0.
C7_AFibNoPWave ==
  \A c \in Slots :
    (Offered(c) /\ frames[c].params.rhythm = "afib") =>
      /\ ProfileOf(c).pWave.present = FALSE
      /\ ProfileOf(c).pWave.amplitude = 0

\* An atrial-fibrillation profile has been built for lead II, the lead whose
\* case modifies the profile.
C7_Witness ==
  /\ Offered(1)
  /\ frames[1].params.rhythm = "afib"
  /\ frames[1].params.lead = "II"
  /\ ProfileOf(1).qrsComplex.amplitude = 11000
  /\ ~ProfileOf(1).pWave.present

\* The P, QRS and T amplitudes of a profile.
Amplitudes(profile) ==
  <<profile.pWave.amplitude, profile.qrsComplex.amplitude, profile.tWave.amplitude>>

\* C9: a rhythm value that is none of normal / afib / vtach does not make the
\* synthesis fail and falls back to the Normal rhythm: the Normal profile of
\* the given lead is selected and the returned series is the one the Normal
\* rhythm returns for the same parameters; a lead value outside the table
\* leaves the base amplitudes of the rhythm's profile unmodified.
C9_Fallback ==
  \A c \in Slots :
    Offered(c) =>
      LET p == frames[c].params
          asNormal == [p EXCEPT !.rhythm = "normal"]
      IN  /\ p.rhythm \notin Rhythms =>
               /\ ProfileOf(c) = getNormalRhythmProfile(p.lead, p.prInterval)
               /\ (Returned(c) /\ ~p.addNoise) =>
                    /\ Len(frames[c].waveform) = ExpectedSampleCount(p.heartRate)
                    /\ \A k \in 1..Len(frames[c].waveform) :
                         frames[c].waveform[k] = SoloSample(asNormal, k - 1)
          /\ p.lead \notin Leads =>
               Amplitudes(ProfileOf(c)) =
                 CASE p.rhythm = "afib" -> <<0, 10000, 3000>>
                   [] p.rhythm = "vtach" -> <<0, 18000, 5000>>
                   [] OTHER -> <<2000, 10000, 3000>>

\* The profile-level part of C9 on its own: an unknown rhythm selects the
\* Normal profile of the lead and returns a full-length series.
C9_ProfileSelected ==
  \A c \in Slots :
    (Offered(c) /\ frames[c].params.rhythm \notin Rhythms) =>
      /\ ProfileOf(c) = getNormalRhythmProfile(frames[c].params.lead,
                                               frames[c].params.prInterval)
      /\ Returned(c) =>
           Len(frames[c].waveform) = ExpectedSampleCount(frames[c].params.heartRate)

\* The samples the invocation with parameters p can compute at index i when it
\* runs with no other invocation in flight: one per value Math.random can
\* return (a single sample when addNoise is false).
SoloOutcomes(p, i) ==
  LET profile == SelectProfile(p.rhythm, p.lead, p.prInterval) IN
  {[x |-> TimeInSeconds(i),
    y |-> SampleVoltage(p, profile, NoiseAmplitude(p, profile),
                        PointsPerCycle(p.heartRate), i, d)] : d \in RandomDraws}

\* C10: two invocations with independent parameter sets, interleaved sample by
\* sample, each build and return exactly a series they build when run alone:
\* at every step an invocation's profile is the one selected by its own
\* parameters, its loop counter counts its own samples only, and its newest
\* sample is one the solo run computes; every sample of the returned series
\* is a solo sample (the solo sample, when addNoise is false).
C10_Isolation ==
  \A c \in Slots :
    Offered(c) =>
      LET f == frames[c]
          n == Len(f.waveform)
      IN  /\ ProfileOf(c) = SelectProfile(f.params.rhythm, f.params.lead, f.params.prInterval)
          /\ n = f.i
          /\ n > 0 => f.waveform[n] \in SoloOutcomes(f.params, n - 1)
          /\ Returned(c) =>
               /\ n = TotalPoints(f.params.heartRate)
               /\ \A k \in 1..n : f.waveform[k] \in SoloOutcomes(f.params, k - 1)
               /\ ~f.params.addNoise =>
                    \A k \in 1..n : f.waveform[k] = SoloSample(f.params, k - 1)

\* Both invocations were in flight together, one without noise and one drawing
\* from Math.random, with different rhythms and leads, and both have returned.
C10_Witness ==
  /\ mode = "pair"
  /\ Returned(1) /\ Returned(2)
  /\ frames[1].params.rhythm = "vtach" /\ frames[2].params.rhythm = "afib"
  /\ ~frames[1].params.addNoise /\ frames[2].params.addNoise
  /\ frames[1].rhythmProfile # frames[2].rhythmProfile
  /\ ProfileOf(1).name # ProfileOf(2).name
  /\ frames[1].waveform # frames[2].waveform

\* Whether sample i of a beat of ppc samples has its phase in [fromMs, toMs) / 1000
\* and at least one sample step away from both ends.
WellInside(i, ppc, fromMs, toMs) ==
  LET r == i % ppc IN
  r * 1000 >= fromMs * ppc + 1000 /\ r * 1000 < toMs * ppc - 1000

\* Whether the samples of beat 0 show an empty ST segment from stFromMs, a T
\* wave in the window that ends at tEndMs and lasts 0.16, and nothing after it.
TWaveEndsAt(f, stFromMs, tEndMs) ==
  \A k \in 1..f.pointsPerCycle :
    /\ WellInside(k - 1, f.pointsPerCycle, stFromMs, tEndMs - 160) => f.waveform[k].y = 0
    /\ WellInside(k - 1, f.pointsPerCycle, tEndMs - 160, tEndMs) => f.waveform[k].y # 0
    /\ WellInside(k - 1, f.pointsPerCycle, tEndMs, 1000 + 2) => f.waveform[k].y = 0

\* C14 as stated: in normal rhythm the T-wave window is placed so that
\* qrsStart + qrsWidth + stSegment + tDuration = qtInterval, i.e. the T wave
\* occupies the 0.16 up to phase qtInterval, for every parameter set of the
\* documented ranges.
C14_TWaveEndsAtQt ==
  \A c \in Slots :
    (NormalNoiseFree(c) /\ frames[c].params.heartRate = 60) =>
      TWaveEndsAt(frames[c], frames[c].params.prInterval + frames[c].params.qrsWidth,
                  frames[c].params.qtInterval)

\* C14 amended: the T wave occupies the 0.16 that end at phase
\* qrsStart + qtInterval (qrsStart = prInterval), so that
\* qrsWidth + stSegment + tDuration = qtInterval, whenever
\* qtInterval - qrsWidth - 0.16 >= 0.05; otherwise the ST segment is 0.05 and
\* the T wave ends at qrsStart + qrsWidth + 0.21, later than qrsStart + qtInterval.
C14_TWaveEndsAtQtAfterQrsStart ==
  \A c \in Slots :
    (NormalNoiseFree(c) /\ frames[c].params.heartRate = 60) =>
      LET p == frames[c].params IN
      TWaveEndsAt(frames[c], p.prInterval + p.qrsWidth,
                  IF p.qtInterval - p.qrsWidth - 160 >= 50
                  THEN p.prInterval + p.qtInterval
                  ELSE p.prInterval + p.qrsWidth + 210)

\* A returned series for prInterval 0.20, qrsWidth 0.12, qtInterval 0.30, where
\* the ST floor applies: the T wave is still there at 0.524 s, past
\* qrsStart + qtInterval = 0.50, and over at 0.536 s.
C14_Witness ==
  /\ NormalNoiseFree(1)
  /\ frames[1].params = Params("normal", 60, "II", 200, FALSE, 120, 300, U)
  /\ frames[1].waveform[132].y > 0
  /\ frames[1].waveform[135].y = 0

\* baselineNoise * 0.05 * (1 + (heartRate - 70) / 100), in 1/U.
NoiseBound(baselineNoise, heartRate) ==
  (baselineNoise * (500 + 5 * (heartRate - 70))) \div U

\* What the noise added to sample k of the series of slot c: the sample
\* minus the sample of a call with the same arguments and addNoise = false.
NoiseOf(c, k) ==
  frames[c].waveform[k].y
    - SoloSample([frames[c].params EXCEPT !.addNoise = FALSE], k - 1).y

\* C15: with addNoise = true every sample differs from the noise-free sample
\* of the same arguments by at most baselineNoise * 0.05 * (1 + (heartRate - 70) / 100)
\* in absolute value; the bound has no amplitudeGain and no lead multiplier in
\* it (the noise is added after the gain) and grows with the heart rate.
C15_NoiseBound ==
  \A c \in Slots :
    (Offered(c) /\ frames[c].params.addNoise /\ Len(frames[c].waveform) > 0) =>
      LET bn == ProfileOf(c).baselineNoise IN
      /\ Abs(NoiseOf(c, Len(frames[c].waveform))) <= NoiseBound(bn, frames[c].params.heartRate)
      /\ \A h \in 40..179 : NoiseBound(bn, h) <= NoiseBound(bn, h + 1)
      /\ NoiseBound(bn, 40) < NoiseBound(bn, 180)

\* A returned atrial-fibrillation series of lead V1 at heart rate 150 with
\* gain 2.0 (normalized gain 2.4) in which a sample lies the whole bound
\* 0.07 * 0.09 = 0.0063 below the noise-free sample.
C15_Witness ==
  /\ Returned(1)
  /\ frames[1].params = Params("afib", 150, "V1", 160, TRUE, 80, 360, 2 * U)
  /\ NormalizedGain(frames[1].params.amplitudeGain, frames[1].params.lead) > U
  /\ NoiseBound(ProfileOf(1).baselineNoise, 150) = 63
  /\ \E k \in 1..Len(frames[1].waveform) : NoiseOf(1, k) = -63

\* The lead normalization factor: 1.0 for II and V5, 1.2 for V1 and V2, 0.9
\* for every other lead.
LeadFactor(lead) ==
  IF lead \in {"II", "V5"} THEN U ELSE IF lead \in {"V1", "V2"} THEN 12000 ELSE 9000

\* Sample k of the series the arguments of slot c give with amplitudeGain 1.0.
UnitGainSample(c, k) ==
  SoloSample([frames[c].params EXCEPT !.amplitudeGain = U], k - 1)

\* C16: with noise off every sample's voltage is the rhythm-specific
\* contribution times amplitudeGain times the lead factor; against the series
\* of amplitudeGain 1.0 every voltage is multiplied by amplitudeGain (up to the
\* rounding of the two products) and every time value is the same.
C16_GainScales ==
  \A c \in Slots :
    (Offered(c) /\ ~frames[c].params.addNoise /\ Len(frames[c].waveform) > 0) =>
      LET f == frames[c]
          n == Len(f.waveform)
      IN  /\ f.waveform[n].y =
               Mul(RhythmPoint(f.params, ProfileOf(c), (n - 1) % f.pointsPerCycle,
                               f.pointsPerCycle, Floor(n - 1, f.pointsPerCycle)),
                   Mul(f.params.amplitudeGain, LeadFactor(f.params.lead)))
          /\ f.waveform[n].x = UnitGainSample(c, n).x
          /\ Abs(f.waveform[n].y - Mul(UnitGainSample(c, n).y, f.params.amplitudeGain)) <= 2

\* A returned normal series of lead V5 with amplitudeGain 2.0 whose R-wave
\* sample at 0.192 s is 2.0, twice the 1.0 of the unit-gain series.
C16_Witness ==
  /\ Returned(1)
  /\ frames[1].params = Params("normal", 60, "V5", 160, FALSE, 80, 360, 2 * U)
  /\ UnitGainSample(1, 49).y > 9000
  /\ Abs(frames[1].waveform[49].y - 2 * UnitGainSample(1, 49).y) <= 2
  /\ frames[1].waveform[49].x = UnitGainSample(1, 49).x

\* The precordial leads in their order across the chest.
Precordial == <<"V1", "V2", "V3", "V4", "V5", "V6">>

\* The QRS amplitude of the Normal profile of a lead.
NormalQrsOf(lead) == getNormalRhythmProfile(lead, 160).qrsComplex.amplitude

\* C17: the Normal profile has QRS duration 0.08, T duration 0.16,
\* baselineNoise 0.02 and rateVariability 0.05 for every lead, and the base
\* amplitudes P 0.2, QRS 1.0, T 0.3 for a lead outside the table; the table
\* depends on the lead only; for aVR the P, QRS and T amplitudes are all
\* negative; over V1..V6 the QRS amplitude rises up to V4, the maximum, and
\* falls from there to V6.
C17_NormalProfile ==
  \A c \in Slots :
    (Offered(c) /\ frames[c].params.rhythm = "normal") =>
      LET prof == ProfileOf(c)
          lead == frames[c].params.lead
          amp == prof.qrsComplex.amplitude
      IN  /\ prof.qrsComplex.duration = 80
          /\ prof.tWave.duration = 160
          /\ prof.baselineNoise = 200
          /\ prof.rateVariability = 500
          /\ prof.pWave.present /\ prof.tWave.present
          /\ lead = UnknownLead => Amplitudes(prof) = <<2000, 10000, 3000>>
          /\ amp = NormalQrsOf(lead)
          /\ lead = "aVR" =>
               prof.pWave.amplitude < 0 /\ amp < 0 /\ prof.tWave.amplitude < 0
          /\ \A j \in 1..5 :
               lead = Precordial[j] =>
                 IF j < 4 THEN amp < NormalQrsOf(Precordial[j + 1])
                 ELSE amp > NormalQrsOf(Precordial[j + 1])
          /\ lead = "V4" => \A l \in Leads : NormalQrsOf(l) <= amp

\* A Normal profile has been built for lead V4 with prInterval 0.20; its QRS
\* amplitude 1.8 is above that of V3 and of V5.
C17_Witness ==
  /\ Offered(1)
  /\ frames[1].params.rhythm = "normal"
  /\ frames[1].params.lead = "V4"
  /\ frames[1].params.prInterval = 200
  /\ ProfileOf(1).qrsComplex.amplitude = 18000
  /\ NormalQrsOf("V3") < 18000 /\ NormalQrsOf("V5") < 18000

\* Whether the profile of the call in slot c has the normal QRS duration
\* 0.08, a T wave of amplitude 0.3, rateVariability 0.4 and
\* baselineNoise 0.05, or 0.07 for lead V1.
AFibProfileBuilt(c) ==
  /\ ProfileOf(c).qrsComplex.duration = 80
  /\ ProfileOf(c).qrsComplex.morphology = "normal"
  /\ ProfileOf(c).tWave.present
  /\ ProfileOf(c).tWave.amplitude = 3000
  /\ ProfileOf(c).rateVariability = 4000
  /\ ProfileOf(c).baselineNoise = (IF frames[c].params.lead = "V1" THEN 700 ELSE 500)

\* C18 as stated: the atrial-fibrillation profile has QRS amplitude 1.0 for
\* every lead, with duration 0.08, T present with amplitude 0.3,
\* rateVariability 0.4 and baselineNoise 0.05 except 0.07 for V1.
C18_AFibQrsOneEveryLead ==
  \A c \in Slots :
    (Offered(c) /\ frames[c].params.rhythm = "afib") =>
      /\ AFibProfileBuilt(c)
      /\ ProfileOf(c).qrsComplex.amplitude = 10000

\* C18 amended: as stated, except that the QRS amplitude is 1.1 for lead II
\* and 1.0 for every other lead.
C18_AFibQrsOneExceptII ==
  \A c \in Slots :
    (Offered(c) /\ frames[c].params.rhythm = "afib") =>
      /\ AFibProfileBuilt(c)
      /\ ProfileOf(c).qrsComplex.amplitude =
           (IF frames[c].params.lead = "II" THEN 11000 ELSE 10000)

\* An atrial-fibrillation call for lead II has returned; its profile has QRS
\* amplitude 1.1 and its largest sample is 1.1 (gain 1.0, lead factor 1.0).
C18_Witness ==
  /\ Returned(1)
  /\ frames[1].params.rhythm = "afib"
  /\ frames[1].params.lead = "II"
  /\ frames[1].params.amplitudeGain = U
  /\ ProfileOf(1).qrsComplex.amplitude = 11000
  /\ ProfileOf(1).baselineNoise = 500
  /\ \E k \in 1..Len(frames[1].waveform) : frames[1].waveform[k].y > 10500

\* C19: for every lead the ventricular-tachycardia profile has no P wave,
\* morphology wide, QRS duration 0.16 (at least 0.12), T amplitude 0.5 with
\* duration 0.12, baselineNoise 0.03, rateVariability 0.1, and QRS amplitude
\* 2.0 for V1 and V2, 1.6 for V6 and 1.8 for every other lead.
C19_VTachProfile ==
  \A c \in Slots :
    (Offered(c) /\ frames[c].params.rhythm = "vtach") =>
      LET prof == ProfileOf(c)
          lead == frames[c].params.lead
      IN  /\ ~prof.pWave.present
          /\ prof.pWave.amplitude = 0
          /\ prof.qrsComplex.morphology = "wide"
          /\ prof.qrsComplex.duration = 160
          /\ prof.qrsComplex.duration >= 120
          /\ prof.tWave.present
          /\ prof.tWave.amplitude = 5000
          /\ prof.tWave.duration = 120
          /\ prof.baselineNoise = 300
          /\ prof.rateVariability = 1000
          /\ prof.qrsComplex.amplitude =
               (IF lead \in {"V1", "V2"} THEN 20000
                ELSE IF lead = "V6" THEN 16000 ELSE 18000)

\* A ventricular-tachycardia call for lead V2 has returned; its profile has
\* QRS amplitude 2.0.
C19_Witness ==
  /\ Returned(1)
  /\ frames[1].params.rhythm = "vtach"
  /\ frames[1].params.lead = "V2"
  /\ ProfileOf(1).name = "Ventricular Tachycardia"
  /\ ProfileOf(1).qrsComplex.amplitude = 20000

\* Sample k of the series the arguments of slot c give when the generators
\* are handed the selected profile with its rateVariability replaced by rv.
SampleWithRateVariability(c, k, rv) ==
  SampleVoltage(frames[c].params, [ProfileOf(c) EXCEPT !.rateVariability = rv], 0,
                frames[c].pointsPerCycle, k - 1, 0)

\* C20: in atrial fibrillation the per-beat RR scale factor combines the cycle
\* index with the profile's rateVariability, so that a profile with a
\* different rateVariability (0.05, or none, in place of 0.4) yields a
\* different adjustedPosition and with it a different series.
C20_RateVariabilityShapesRR ==
  \A c \in Slots :
    (Returned(c) /\ frames[c].params.rhythm = "afib" /\ ~frames[c].params.addNoise) =>
      /\ ProfileOf(c).rateVariability = 4000
      /\ \A rv \in {0, 500} :
           \E k \in 1..Len(frames[c].waveform) :
             frames[c].waveform[k].y # SampleWithRateVariability(c, k, rv)

\* The values the PR slider offers at its ends and at its default.
PrChoices == {120, 160, 200}

\* Whether sample i of a series of ppc samples per beat lies in beat 0.
InFirstBeat(i, ppc) == i < ppc

\* C21: in atrial fibrillation and in ventricular tachycardia, with noise off,
\* a call returns the series of the call that differs from it only in
\* prInterval; the QRS starts at the fixed phase 0.2 in atrial fibrillation
\* (before it the beat holds the fibrillatory baseline only, below 0.075 of
\* the normalized gain) and at the fixed phase 0.1 in ventricular tachycardia
\* (before it the beat is flat, after it the QRS rises above the baseline).
C21_PrIntervalIgnored ==
  \A c \in Slots :
    (Offered(c) /\ frames[c].params.rhythm \in {"afib", "vtach"}
       /\ ~frames[c].params.addNoise /\ Len(frames[c].waveform) > 0) =>
      LET f == frames[c]
          n == Len(f.waveform)
          y == f.waveform[n].y
          ng == NormalizedGain(f.params.amplitudeGain, f.params.lead)
      IN  /\ \A pr \in PrChoices :
               f.waveform[n] = SoloSample([f.params EXCEPT !.prInterval = pr], n - 1)
          /\ (f.params.rhythm = "afib" /\ InFirstBeat(n - 1, f.pointsPerCycle)
                /\ WellInside(n - 1, f.pointsPerCycle, 0, 200)) =>
               Abs(y) <= Mul(750, ng)
          /\ (f.params.rhythm = "vtach" /\ InFirstBeat(n - 1, f.pointsPerCycle)
                /\ WellInside(n - 1, f.pointsPerCycle, 0, 100)) =>
               y = 0
          /\ (f.params.rhythm = "vtach" /\ InFirstBeat(n - 1, f.pointsPerCycle)
                /\ WellInside(n - 1, f.pointsPerCycle, 100,
                              100 + (2 * Max(120, f.params.qrsWidth)) \div 5)) =>
               y > 0

\* An atrial-fibrillation call with prInterval 0.20 has returned the series
\* of prInterval 0.12, with an R wave above 1.0 (lead II) in the window that
\* starts at phase 0.2 of beat 0.
C21_Witness ==
  /\ Returned(1)
  /\ frames[1].params = Params("afib", 100, "II", 200, FALSE, 80, 360, U)
  /\ \A k \in 1..Len(frames[1].waveform) :
       frames[1].waveform[k] = SoloSample([frames[1].params EXCEPT !.prInterval = 120], k - 1)
  /\ \E k \in 1..frames[1].pointsPerCycle :
       /\ WellInside(k - 1, frames[1].pointsPerCycle, 200, 280)
       /\ frames[1].waveform[k].y > U

\* The phase, in thousandths of the beat, at which the ventricular-tachycardia
\* QRS of the call in slot c ends: 0.1 + max(0.12, qrsWidth).
VTachQrsEnd(c) == 100 + Max(120, frames[c].params.qrsWidth)

\* The phase at which its T wave starts: the ST segment lasts
\* max(0.02, qtInterval - wideQrsWidth - 0.16).
VTachTStart(c) ==
  VTachQrsEnd(c)
    + Max(20, frames[c].params.qtInterval - Max(120, frames[c].params.qrsWidth) - 160)

\* C22: in ventricular tachycardia every sample of the ST segment
\* [qrsEnd, tStart) is the contribution -0.1 times the normalized gain, for
\* every lead and whatever the amplitudes of the profile are.
C22_VTachStDepression ==
  \A c \in Slots :
    (Offered(c) /\ frames[c].params.rhythm = "vtach"
       /\ ~frames[c].params.addNoise /\ Len(frames[c].waveform) > 0) =>
      LET f == frames[c]
          n == Len(f.waveform)
      IN  WellInside(n - 1, f.pointsPerCycle, VTachQrsEnd(c), VTachTStart(c)) =>
            f.waveform[n].y = Mul(-1000, NormalizedGain(f.params.amplitudeGain, f.params.lead))

\* A returned ventricular-tachycardia series of lead V1 (QRS amplitude 2.0,
\* lead factor 1.2) whose sample at phase 0.252 of beat 0, inside the ST
\* segment [0.22, 0.30), is -0.12.
C22_Witness ==
  /\ Returned(1)
  /\ frames[1].params = Params("vtach", 70, "V1", 160, FALSE, 80, 360, U)
  /\ ProfileOf(1).qrsComplex.amplitude = 20000
  /\ WellInside(54, frames[1].pointsPerCycle, VTachQrsEnd(1), VTachTStart(1))
  /\ frames[1].waveform[55].y = -1200

\* The sample an inverted Gaussian T wave gives at index i of the series of
\* slot c: minus scale * T amplitude * gaussian(tPosition, center, width),
\* times the normalized gain, tPosition being the fraction of the 0.16 long
\* T window that has passed.
InvertedT(c, i, center, width, scale) ==
  LET f == frames[c] IN
  Mul(-Mul(Mul(ProfileOf(c).tWave.amplitude, scale),
           gaussian(Rel((i % f.pointsPerCycle) * U, VTachTStart(c), 160, f.pointsPerCycle),
                    center, width, U)),
      NormalizedGain(f.params.amplitudeGain, f.params.lead))

\* Whether the newest sample of a noise-free ventricular-tachycardia series in
\* slot c lies inside the T window.
VTachTSample(c) ==
  /\ Offered(c)
  /\ frames[c].params.rhythm = "vtach"
  /\ ~frames[c].params.addNoise
  /\ Len(frames[c].waveform) > 0
  /\ WellInside(Len(frames[c].waveform) - 1, frames[c].pointsPerCycle,
                VTachTStart(c), VTachTStart(c) + 160)

\* C23 as stated: in ventricular tachycardia the T wave is negative at every
\* phase of the T window and has the shape of the normal T wave: a Gaussian
\* with its peak at 40% of the window and width 0.3, scaled by the T amplitude.
C23_VTachTLikeNormal ==
  \A c \in Slots :
    VTachTSample(c) =>
      LET n == Len(frames[c].waveform) IN
      /\ frames[c].waveform[n].y < 0
      /\ frames[c].waveform[n].y = InvertedT(c, n - 1, 4000, 3000, U)

\* C23 amended: the T wave is negative at every phase of the T window and is
\* a Gaussian of its own: peak at 45% of the window, width 0.35, scaled by
\* 0.7 times the T amplitude.
C23_VTachTInverted ==
  \A c \in Slots :
    VTachTSample(c) =>
      LET n == Len(frames[c].waveform) IN
      /\ frames[c].waveform[n].y < 0
      /\ frames[c].waveform[n].y = InvertedT(c, n - 1, 4500, 3500, 7000)

\* A returned ventricular-tachycardia series of lead II (T amplitude 0.5)
\* whose sample at phase 0.374 of beat 0, next to the peak of the T window
\* [0.30, 0.46), is about -0.35 and not the -0.5 of an unscaled T wave.
C23_Witness ==
  /\ Returned(1)
  /\ frames[1].params = Params("vtach", 70, "II", 160, FALSE, 80, 360, U)
  /\ VTachTStart(1) = 300
  /\ frames[1].waveform[81].y < -3400
  /\ frames[1].waveform[81].y > -3600
  /\ frames[1].waveform[81].y = InvertedT(1, 80, 4500, 3500, 7000)

\* The cycle index the loop of slot c computes for sample index i.
CycleIndexOf(c, i) == Floor(i, frames[c].pointsPerCycle)

\* C24: for every heart rate of the UI range, when the loop passes from
\* sample index i to i + 1: the numerator i mod pointsPerCycle of cyclePosition
\* lies in [0, pointsPerCycle), cycleIndex is floor(i / pointsPerCycle), and
\* the cycle index of i + 1 is that of i, or that of i plus 1 exactly when the
\* cyclePosition of i + 1 is 0.
C24_CycleIndexSteps ==
  [][\A c \in Slots :
       (/\ frames[c].pc = "loop"
        /\ frames'[c].pc = "loop"
        /\ frames'[c].i = frames[c].i + 1
        /\ frames[c].params.heartRate \in HeartRateSlider) =>
          LET i == frames[c].i
              ppc == frames[c].pointsPerCycle
          IN  /\ ppc > 0
              /\ i % ppc >= 0 /\ i % ppc < ppc
              /\ CycleIndexOf(c, i) * ppc <= i /\ i < (CycleIndexOf(c, i) + 1) * ppc
              /\ CycleIndexOf(c, i + 1) - CycleIndexOf(c, i)
                   = (IF (i + 1) % ppc = 0 THEN 1 ELSE 0)]_vars

\* A loop at heart rate 180 (83 samples per beat) stands at sample index 166,
\* the first sample of beat 2.
C24_Witness ==
  /\ frames[1].pc = "loop"
  /\ frames[1].params.heartRate = 180
  /\ frames[1].pointsPerCycle = 83
  /\ frames[1].i = 166
  /\ CycleIndexOf(1, 166) = 2
  /\ CycleIndexOf(1, 165) = 1

\* Whether slot c holds a noise-free call whose rhythm is none of normal,
\* afib, vtach.
UnknownRhythmCall(c) ==
  /\ Offered(c)
  /\ frames[c].params.rhythm \notin Rhythms
  /\ ~frames[c].params.addNoise

\* C25: for a rhythm value that is none of normal / afib / vtach and noise
\* off, the Normal profile of the lead is selected but no point generator is
\* dispatched: every sample has voltage 0, and the returned series is not the
\* series of the Normal rhythm.
C25_UnknownRhythmFlat ==
  \A c \in Slots :
    UnknownRhythmCall(c) =>
      LET f == frames[c]
          n == Len(f.waveform)
      IN  /\ ProfileOf(c) = getNormalRhythmProfile(f.params.lead, f.params.prInterval)
          /\ n > 0 => f.waveform[n].y = 0
          /\ Returned(c) =>
               \E k \in 1..n :
                 f.waveform[k] # SoloSample([f.params EXCEPT !.rhythm = "normal"], k - 1)

\* A call with an unknown rhythm for lead II at heart rate 60 has returned
\* 1250 samples; the sample at 0.192 s is 0 where the Normal rhythm has its R
\* wave, above 1.0.
C25_Witness ==
  /\ Returned(1)
  /\ UnknownRhythmCall(1)
  /\ frames[1].params.lead = "II"
  /\ frames[1].params.heartRate = 60
  /\ Len(frames[1].waveform) = 1250
  /\ frames[1].waveform[49].y = 0
  /\ SoloSample([frames[1].params EXCEPT !.rhythm = "normal"], 48).y > U

\* The ST segment and the T window that follow a QRS window [from, from + width)
\* when the ST segment is at least floor long: <<from, to>> pairs in
\* thousandths of the beat.
WindowsAfter(from, width, floor, qtInterval) ==
  LET st == Max(floor, qtInterval - width - 160) IN
  << <<from, from + width>>,
     <<from + width, from + width + st>>,
     <<from + width + st, from + width + st + 160>> >>

\* The phase windows of the generator of rhythm, in the order the generator
\* tests them: P (normal only), QRS, ST, T.
PhaseWindows(p) ==
  CASE p.rhythm = "normal" ->
         << <<40, 40 + 80>> >> \o WindowsAfter(p.prInterval, p.qrsWidth, 50, p.qtInterval)
    [] p.rhythm = "afib" -> WindowsAfter(200, p.qrsWidth, 50, p.qtInterval)
    [] p.rhythm = "vtach" -> WindowsAfter(100, Max(120, p.qrsWidth), 20, p.qtInterval)

\* The largest voltage the beat can have outside its windows: the
\* fibrillatory baseline 0.03 + 0.02 + 0.025 in atrial fibrillation, else 0.
BaselineBound(p) ==
  IF p.rhythm = "afib" THEN Mul(750, NormalizedGain(p.amplitudeGain, p.lead)) ELSE 0

\* Whether the parameters are values of the PR, QRS and QT sliders and the
\* rhythm has a generator.
InUiRanges(p) ==
  /\ p.rhythm \in Rhythms
  /\ p.prInterval \in PrIntervalSlider
  /\ p.qrsWidth \in QrsWidthSlider
  /\ p.qtInterval \in QtIntervalSlider

\* C26: for every parameter set of the UI ranges the windows of the generator
\* come in the order P (normal only), QRS, ST, T, none is empty, each ends no
\* later than the next starts, and the T window ends before phase 1; the
\* first and the last sample of a beat hold the baseline only, so no wave is
\* cut off at the beat boundary.
C26_WindowsOrdered ==
  \A c \in Slots :
    (Offered(c) /\ InUiRanges(frames[c].params) /\ ~frames[c].params.addNoise) =>
      LET f == frames[c]
          w == PhaseWindows(f.params)
          n == Len(f.waveform)
      IN  /\ \A j \in 1..Len(w) : 0 <= w[j][1] /\ w[j][1] < w[j][2]
          /\ \A j \in 1..(Len(w) - 1) : w[j][2] <= w[j + 1][1]
          /\ w[Len(w)][2] < 1000
          /\ (n > 0 /\ ((n - 1) % f.pointsPerCycle) \in {0, f.pointsPerCycle - 1}) =>
               Abs(f.waveform[n].y) <= BaselineBound(f.params)

\* A returned normal series for prInterval 0.20, qrsWidth 0.12, qtInterval
\* 0.50 at heart rate 60: the T window [0.54, 0.70) is the last to end; the
\* sample at 0.688 s is on the T wave and the last sample of beat 0 is 0.
C26_Witness ==
  /\ Returned(1)
  /\ frames[1].params = Params("normal", 60, "II", 200, FALSE, 120, 500, U)
  /\ PhaseWindows(frames[1].params)[4] = <<540, 700>>
  /\ frames[1].waveform[173].y > 0
  /\ frames[1].waveform[250].y = 0

----------------------------------------------------------------------------
\* Properties of the scrolling canvas.

\* C27: at any time at most one requestAnimationFrame callback is pending, and
\* it is the one animationFrameIdRef names; when the dependencies change or
\* the component unmounts the pending frame is cancelled before a new loop
\* starts (no pending callback belongs to an effect run that was cleaned up,
\* none is pending after the unmount), and draw never executes for an effect
\* run that was cleaned up.
C27_OneFramePending ==
  /\ Cardinality(raf) <= 1
  /\ \A cb \in raf : cb.handle = animationFrameIdRef /\ cb.loop \notin cleaned
  /\ ~mounted => raf = {}
  /\ ~drawn.afterCleanup

\* The effect has run three times and frames have run since: the first two
\* runs were cleaned up and the one pending callback belongs to the third.
C27_Witness ==
  /\ loops = 3
  /\ cleaned = {1, 2}
  /\ handles > 6
  /\ drawn.loop = 3
  /\ drawn.dataPosition > 0
  /\ \E cb \in raf : cb.loop = 3 /\ cb.handle = handles

\* C28: at the start of every frame 0 <= dataPosition < points.length (in
\* sixths of a point: below 6 * 500), for the frame that ran last and for
\* every pending one, and every index at which the frame read
\* waveformData.points lies in [0, points.length).
C28_DataPositionInBounds ==
  /\ drawn.dataPosition >= 0 /\ drawn.dataPosition < 6 * WaveformPoints
  /\ drawn.outside = {}
  /\ \A cb \in raf : cb.dataPosition >= 0 /\ cb.dataPosition < 6 * WaveformPoints

\* At heart rate 180 (30 points per frame) the frame that started at point
\* 480 has run: its reads wrapped past the end of the data and it reset
\* dataPosition to 0 for the next frame.
C28_Witness ==
  /\ drawn.dataPosition = 6 * 480
  /\ StartPos(drawn.dataPosition, WaveformPoints) = 480
  /\ IndicesRead(drawn.dataPosition, WaveformPoints) = 0..(WaveformPoints - 1)
  /\ \E cb \in raf : cb.heartRate = 180 /\ cb.dataPosition = 0

----------------------------------------------------------------------------
\* Properties of the canvas size controls.

\* C29: after every size operation canvasWidth >= 600 and canvasHeight >= 50;
\* a decrease at the minimum leaves the size unchanged; Reset Size returns to
\* 1650 x 100; resetSettings of the parameter store does not change the size.
C29_CanvasSizeFloor ==
  [][/\ canvasSize'.width >= 600
     /\ canvasSize'.height >= 50
     /\ (lastOp'.handler = "handleDecreaseWidth" /\ canvasSize.width = 600) =>
          canvasSize' = canvasSize
     /\ (lastOp'.handler = "handleDecreaseHeight" /\ canvasSize.height = 50) =>
          canvasSize' = canvasSize
     /\ lastOp'.handler = "resetSize" => canvasSize' = [width |-> 1650, height |-> 100]
     /\ lastOp'.handler = "resetSettings" => canvasSize' = canvasSize]_vars

\* The canvas has been shrunk to 600 x 50, a further decrease of the width
\* has been clicked, and the size has stayed.
C29_Witness ==
  /\ canvasSize = [width |-> 600, height |-> 50]
  /\ lastOp.handler = "handleDecreaseWidth"
  /\ settings = defaultContextValue

----------------------------------------------------------------------------
\* Properties of the simulator page.

\* C11: after any sequence of UI operations the parameter store holds
\* heartRate in [40, 180], prInterval in [0.12, 0.20], qrsWidth in
\* [0.06, 0.12], qtInterval in [0.30, 0.50] and amplitudeGain in [0.5, 2.0],
\* and the engine is invoked with exactly these values, never with a heart
\* rate <= 0.
C11_StoreInRange ==
  mode = "ui" =>
    /\ settings.heartRate \in 40..180
    /\ settings.prInterval \in 120..200
    /\ settings.qrsWidth \in 60..120
    /\ settings.qtInterval \in 300..500
    /\ settings.amplitudeGain \in (U \div 2)..(2 * U)
    /\ invoked = EngineArguments(settings)
    /\ invoked.heartRate > 0

\* The heart-rate slider was dragged to its minimum with every other slider
\* at an end of its range, and the engine was invoked with heart rate 40.
C11_Witness ==
  /\ lastOp.handler = "setHeartRate"
  /\ invoked.heartRate = 40
  /\ settings.prInterval = 200 /\ settings.qrsWidth = 60
  /\ settings.qtInterval = 500 /\ settings.amplitudeGain = 2 * U
  /\ settings.rhythm = "vtach" /\ settings.showNoise

\* C12: from any state reached through the setters, resetSettings restores
\* heartRate 70, rhythm normal, prInterval 0.16, qrsWidth 0.08, qtInterval
\* 0.36, amplitudeGain 1.0, showLabels false, showNoise false, selectedLead
\* II; applying it twice equals applying it once.
C12_ResetRestoresDefaults ==
  mode = "ui" =>
    LET defaults == [heartRate |-> 70, rhythm |-> "normal", prInterval |-> 160,
                     qrsWidth |-> 80, qtInterval |-> 360, amplitudeGain |-> U,
                     showLabels |-> FALSE, showNoise |-> FALSE, selectedLead |-> "II"]
    IN  /\ resetSettings(settings) = defaults
        /\ resetSettings(resetSettings(settings)) = resetSettings(settings)
        /\ lastOp.handler = "resetSettings" =>
             /\ settings = defaults
             /\ invoked = EngineArguments(defaults)

\* The Reset button was pressed in a state where all nine settings differed
\* from their defaults, and changed all nine.
C12_Witness ==
  /\ lastOp = [handler |-> "resetSettings", changed |-> 9]
  /\ settings.heartRate = 70 /\ settings.amplitudeGain = U
  /\ settings.selectedLead = "II" /\ ~settings.showNoise

----------------------------------------------------------------------------
\* Properties of the profile provider.

\* C13: the provider has no hidden state: every call returns a fresh object,
\* the profile returned for a (rhythm, lead) is the same whatever calls came
\* before it, and a profile obtained earlier is not changed by a later call:
\* at every moment each object ever returned is the profile of its own
\* request, at an address of its own.
C13_NoHiddenState ==
  mode = "provider" =>
    \A k \in 1..Len(requests) :
      LET q == requests[k] IN
      /\ heap[q.address] = SelectProfile(q.rhythm, q.lead, q.prInterval)
      /\ \A j \in 1..Len(requests) :
           /\ j # k => requests[j].address # q.address
           /\ (requests[j].rhythm = q.rhythm /\ requests[j].lead = q.lead) =>
                heap[requests[j].address] = heap[q.address]

\* The Normal profile of lead I was requested after the Normal profile of
\* aVR and before the AFib profile of V1: it has the base P and T amplitudes,
\* and the aVR profile obtained first is still negative.
C13_Witness ==
  /\ Len(requests) = 3
  /\ requests[1].rhythm = "normal" /\ requests[1].lead = "aVR"
  /\ requests[2].rhythm = "normal" /\ requests[2].lead = "I"
  /\ requests[3].rhythm = "afib" /\ requests[3].lead = "V1"
  /\ Amplitudes(heap[requests[1].address]) = <<-1500, -7000, -2000>>
  /\ Amplitudes(heap[requests[2].address]) = <<2000, 8000, 3000>>
  /\ heap[requests[3].address].baselineNoise = 700

----------------------------------------------------------------------------
\* Properties of the profile-table generator.

\* The points looked at in a state: the one the loop stored last and, once the
\* call has returned, every point of the returned array.
Stored ==
  IF table.pc = "idle" THEN {}
  ELSE IF table.pc = "done" THEN 1..Len(table.waveformPoints)
  ELSE {Len(table.waveformPoints)} \ {0}

\* v lies between a and b, whichever is larger.
Between(v, a, b) == (a <= v /\ v <= b) \/ (b <= v /\ v <= a)

\* Point k came from the adjacent profile points j and j + 1: they bracket its
\* time (k - 1) / numPoints, and without noise its value is their linear
\* interpolation at that time, times the amplitude.
FromAdjacent(k, j) ==
  /\ j < Len(table.profile.points)
  /\ table.profile.points[j].time * table.numPoints <= 100 * (k - 1)
  /\ 100 * (k - 1) < table.profile.points[j + 1].time * table.numPoints
  /\ table.options.noise = 0 =>
       /\ table.waveformPoints[k] =
            Mul(table.profile.points[j].voltage
                  + Mul(Trunc((100 * (k - 1) - table.profile.points[j].time * table.numPoints)
                                * U,
                              (table.profile.points[j + 1].time
                                 - table.profile.points[j].time) * table.numPoints),
                        table.profile.points[j + 1].voltage
                          - table.profile.points[j].voltage),
                table.options.amplitude)
       /\ Between(table.waveformPoints[k],
                  Mul(table.profile.points[j].voltage, table.options.amplitude),
                  Mul(table.profile.points[j + 1].voltage, table.options.amplitude))

\* The heart rates a call is compared across.
OtherBpm == {40, 70, 180, 250}

\* C30: in the profile-table generator, for each built-in profile and every
\* point index, the normalized time is bracketed by two adjacent profile points,
\* so the wrap-around fallback from the last point to the first is never taken
\* and, without noise, each value is the linear interpolation of two adjacent
\* profile voltages times the amplitude; when the point count is given, the
\* values are those of the same call at any other bpm.
C30_TableInterpolates ==
  \A k \in Stored :
      /\ table.profile.name = table.options.rhythmType
      /\ table.lower[k] # Len(table.profile.points)
      /\ FromAdjacent(k, table.lower[k])
      /\ (table.options.points # 0 /\ table.options.noise = 0) =>
           \A bpm \in OtherBpm :
             /\ NumPoints(bpm, table.options.points) = table.numPoints
             /\ table.waveformPoints[k] =
                  PointValue(RHYTHM_PROFILES(table.options.rhythmType).points, k - 1,
                             NumPoints(bpm, table.options.points),
                             table.options.amplitude, 0, 0)

\* A returned noiseless ventricular-tachycardia table of 500 points at 180 bpm
\* whose point 40 lies strictly between the amplitude-scaled voltages of the
\* second and third profile points, and whose last point lies in the last segment.
C30_Witness ==
  /\ table.pc = "done"
  /\ table.options.rhythmType = "VTach"
  /\ table.options.bpm = 180
  /\ table.options.noise = 0
  /\ table.options.points = WaveformPoints
  /\ Len(table.waveformPoints) = WaveformPoints
  /\ table.lower[40] = 2
  /\ table.waveformPoints[40] > Mul(VTACH_PROFILE.points[2].voltage, table.options.amplitude)
  /\ table.waveformPoints[40] < Mul(VTACH_PROFILE.points[3].voltage, table.options.amplitude)
  /\ table.lower[WaveformPoints] = Len(VTACH_PROFILE.points) - 1

====
